---------------------------- MODULE Spec2Model ----------------------------
(***************************************************************************)
(* Snuffles: the Slack webhook handler of src/main.py (signature check,    *)
(* command dispatch, the process-wide TIMEZONE) and the news aggregation   *)
(* of src/daily_briefing.py.                                               *)
(*                                                                         *)
(* Strings the code inspects character by character (the message text, the *)
(* timestamp header, zone names) are sequences of one-character strings.   *)
(* HMAC-SHA256 is modelled symbolically: a digest is the pair (key, signed *)
(* message), so two digests are equal exactly when key and message are.    *)
(***************************************************************************)
EXTENDS Integers, Sequences, FiniteSets, TLC

VARIABLES
    TIMEZONE,      \* main.py:14, the process-wide zone name
    secret,        \* main.py:18, SLACK_SIGNING_SECRET of this process
    now,           \* time.time() / datetime.now(): the clock, in seconds
    pc,            \* per request slot: where its handler thread stands
    req,           \* per request slot: the inbound request
    verified,      \* per request slot: outcome of verify_slack_request
    posts,         \* per request slot: chat_postMessage calls that went out
    resp,          \* per request slot: the HTTP response
    caught,        \* per request slot: the except of main.py:208 ran
    tzBefore,      \* per request slot: TIMEZONE when the request arrived
    fetched,       \* per request slot: the response of requests.get, main.py:31
    lowerText,     \* per request slot: main.py:132, `text`, the lowered event text
    feeds,         \* daily_briefing.py: what each news feed answers
    feedIdx,       \* daily_briefing.py:96, the feed the loop stands at
    all_news,      \* daily_briefing.py:93
    seen_titles,   \* daily_briefing.py:94
    newsDone       \* get_raw_news_headlines has returned

vars == <<TIMEZONE, secret, now, pc, req, verified, posts, caught, resp, tzBefore, fetched,
          lowerText,
          feeds, feedIdx, all_news, seen_titles, newsDone>>

slackVars == <<TIMEZONE, secret, now, pc, req, verified, posts, caught, resp, tzBefore,
              fetched, lowerText>>
newsVars == <<feeds, feedIdx, all_news, seen_titles, newsDone>>

-----------------------------------------------------------------------------
(* Bounds of the model *)

\* Number of text fragments concatenated into one message text.
MaxFrags == 2

-----------------------------------------------------------------------------
(* Python string operations on character sequences *)

\* The cased characters up to U+00FF, and what str.lower() makes of each.
UpperChars == <<
    "A", "B", "C", "D", "E", "F", "G", "H", "I", "J", "K", "L", "M", "N",
    "O", "P", "Q", "R", "S", "T", "U", "V", "W", "X", "Y", "Z", "À", "Á",
    "Â", "Ã", "Ä", "Å", "Æ", "Ç", "È", "É", "Ê", "Ë", "Ì", "Í", "Î", "Ï",
    "Ð", "Ñ", "Ò", "Ó", "Ô", "Õ", "Ö", "Ø", "Ù", "Ú", "Û", "Ü", "Ý", "Þ" >>
LowerChars == <<
    "a", "b", "c", "d", "e", "f", "g", "h", "i", "j", "k", "l", "m", "n",
    "o", "p", "q", "r", "s", "t", "u", "v", "w", "x", "y", "z", "à", "á",
    "â", "ã", "ä", "å", "æ", "ç", "è", "é", "ê", "ë", "ì", "í", "î", "ï",
    "ð", "ñ", "ò", "ó", "ô", "õ", "ö", "ø", "ù", "ú", "û", "ü", "ý", "þ" >>

LowerMap ==
    [c \in {UpperChars[i] : i \in 1..Len(UpperChars)} |->
        LowerChars[CHOOSE i \in 1..Len(UpperChars) : UpperChars[i] = c]]

\* str.lower() on one character
LowerCh(c) == IF c \in DOMAIN LowerMap THEN LowerMap[c] ELSE c

\* str.lower()
Lower(s) == [i \in 1..Len(s) |-> LowerCh(s[i])]

\* sub in s
Contains(s, sub) ==
    \E i \in 0..(Len(s) - Len(sub)) : SubSeq(s, i + 1, i + Len(sub)) = sub

\* s.find(sub) + 1, or 0 when sub does not occur
FindFirst(s, sub) ==
    IF Contains(s, sub)
    THEN 1 + CHOOSE i \in 0..(Len(s) - Len(sub)) :
             /\ SubSeq(s, i + 1, i + Len(sub)) = sub
             /\ \A j \in 0..(i - 1) : SubSeq(s, j + 1, j + Len(sub)) # sub
    ELSE 0

\* s.split(sep)[-1]: split scans left to right, the last piece is what is left
RECURSIVE SplitLast(_, _)
SplitLast(s, sep) ==
    LET i == FindFirst(s, sep)
    IN  IF i = 0 THEN s
        ELSE SplitLast(SubSeq(s, i + Len(sep), Len(s)), sep)

\* str.isspace() of one character, for the characters up to U+00FF: what
\* str.strip() and int() strip.
IsSpace(c) ==
    c \in {"\t", "\n", "", "\f", "\r", "", "", "", "", " ", "", " "}

RECURSIVE LStrip(_)
LStrip(s) ==
    IF s # <<>> /\ IsSpace(Head(s)) THEN LStrip(Tail(s)) ELSE s

RECURSIVE RStrip(_)
RStrip(s) ==
    IF s # <<>> /\ IsSpace(s[Len(s)]) THEN RStrip(SubSeq(s, 1, Len(s) - 1)) ELSE s

\* str.strip()
Strip(s) == RStrip(LStrip(s))

DigitChars == <<"0", "1", "2", "3", "4", "5", "6", "7", "8", "9">>

IsDigit(c) == \E d \in 1..10 : DigitChars[d] = c

DigitVal(c) == (CHOOSE d \in 1..10 : DigitChars[d] = c) - 1

\* int(s) raises ValueError: after the surrounding whitespace and one sign,
\* ASCII digits are left, with single underscores allowed between digits.
\* The separators U+001C to U+001F are whitespace to str.strip(), not to int().
\* More than 4300 digits are refused (sys.int_max_str_digits).
IntRaises(s) ==
    LET t == Strip(s)
        d == IF t # <<>> /\ Head(t) \in {"+", "-"} THEN Tail(t) ELSE t
    IN  \/ \E i \in 1..Len(s) : s[i] \in {"", "", "", ""}
        \/ d = <<>>
        \/ \E i \in 1..Len(d) : ~(IsDigit(d[i]) \/ d[i] = "_")
        \/ d[1] = "_"
        \/ d[Len(d)] = "_"
        \/ \E i \in 1..(Len(d) - 1) : d[i] = "_" /\ d[i + 1] = "_"
        \/ Len(SelectSeq(d, IsDigit)) > 4300

RECURSIVE DropZeros(_)
DropZeros(d) == IF Len(d) > 1 /\ Head(d) = "0" THEN DropZeros(Tail(d)) ELSE d

\* int(s), where it does not raise. Python integers are unbounded: the value
\* is held as its sign and its decimal digits, most significant first and
\* without leading zeros.
IntOf(s) ==
    LET t == Strip(s)
        d == IF t # <<>> /\ Head(t) \in {"+", "-"} THEN Tail(t) ELSE t
        m == DropZeros(SelectSeq(d, IsDigit))
    IN  [neg |-> t # <<>> /\ Head(t) = "-" /\ m # <<"0">>, digits |-> m]

\* x < y for two non-negative integers given by their digits
MagLess(x, y) ==
    \/ Len(x) < Len(y)
    \/ /\ Len(x) = Len(y)
       /\ \E i \in 1..Len(x) : /\ \A j \in 1..(i - 1) : x[j] = y[j]
                               /\ DigitVal(x[i]) < DigitVal(y[i])

\* a < b for two integers
IntLess(a, b) ==
    IF a.neg # b.neg THEN a.neg
    ELSE IF a.neg THEN MagLess(b.digits, a.digits)
    ELSE MagLess(a.digits, b.digits)

\* The digits of n >= 0
RECURSIVE NatStr(_)
NatStr(n) ==
    IF n < 10 THEN <<DigitChars[n + 1]>>
    ELSE Append(NatStr(n \div 10), DigitChars[(n % 10) + 1])

\* The three digits of 0 <= n < 1000
Pad3(n) ==
    <<DigitChars[(n \div 100) + 1], DigitChars[((n \div 10) % 10) + 1], DigitChars[(n % 10) + 1]>>

\* The integer t + k, for a clock reading t and -1000 < k < 1000, computed on
\* the thousands and the units apart so that no intermediate value leaves
\* the range of the clock readings.
IntPlus(t, k) ==
    LET s == (t % 1000) + k
        hi == (t \div 1000) + (s \div 1000)
        lo == s % 1000
    IN  IF hi >= 0 THEN [neg |-> FALSE, digits |-> DropZeros(NatStr(hi) \o Pad3(lo))]
        ELSE IF lo = 0 THEN [neg |-> TRUE, digits |-> NatStr(0 - hi) \o Pad3(0)]
        ELSE [neg |-> TRUE, digits |-> DropZeros(NatStr(0 - hi - 1) \o Pad3(1000 - lo))]

\* str(n)
StrOf(n) ==
    IF IntPlus(n, 0).neg THEN <<"-">> \o IntPlus(n, 0).digits ELSE IntPlus(n, 0).digits

\* abs(t - n) > w, for a clock reading t, an integer n and 0 <= w < 1000
OutsideWindow(t, n, w) ==
    IntLess(n, IntPlus(t, 0 - w)) \/ IntLess(IntPlus(t, w), n)

\* 2^1024 - 2^970: the integers from here on are too large to convert to
\* float, and time.time() - n raises OverflowError.
FloatLimit == <<
    "1", "7", "9", "7", "6", "9", "3", "1", "3", "4", "8", "6", "2", "3", "1",
    "5", "8", "0", "7", "9", "3", "7", "2", "8", "9", "7", "1", "4", "0", "5",
    "3", "0", "3", "4", "1", "5", "0", "7", "9", "9", "3", "4", "1", "3", "2",
    "7", "1", "0", "0", "3", "7", "8", "2", "6", "9", "3", "6", "1", "7", "3",
    "7", "7", "8", "9", "8", "0", "4", "4", "4", "9", "6", "8", "2", "9", "2",
    "7", "6", "4", "7", "5", "0", "9", "4", "6", "6", "4", "9", "0", "1", "7",
    "9", "7", "7", "5", "8", "7", "2", "0", "7", "0", "9", "6", "3", "3", "0",
    "2", "8", "6", "4", "1", "6", "6", "9", "2", "8", "8", "7", "9", "1", "0",
    "9", "4", "6", "5", "5", "5", "5", "4", "7", "8", "5", "1", "9", "4", "0",
    "4", "0", "2", "6", "3", "0", "6", "5", "7", "4", "8", "8", "6", "7", "1",
    "5", "0", "5", "8", "2", "0", "6", "8", "1", "9", "0", "8", "9", "0", "2",
    "0", "0", "0", "7", "0", "8", "3", "8", "3", "6", "7", "6", "2", "7", "3",
    "8", "5", "4", "8", "4", "5", "8", "1", "7", "7", "1", "1", "5", "3", "1",
    "7", "6", "4", "4", "7", "5", "7", "3", "0", "2", "7", "0", "0", "6", "9",
    "8", "5", "5", "5", "7", "1", "3", "6", "6", "9", "5", "9", "6", "2", "2",
    "8", "4", "2", "9", "1", "4", "8", "1", "9", "8", "6", "0", "8", "3", "4",
    "9", "3", "6", "4", "7", "5", "2", "9", "2", "7", "1", "9", "0", "7", "4",
    "1", "6", "8", "4", "4", "4", "3", "6", "5", "5", "1", "0", "7", "0", "4",
    "3", "4", "2", "7", "1", "1", "5", "5", "9", "6", "9", "9", "5", "0", "8",
    "0", "9", "3", "0", "4", "2", "8", "8", "0", "1", "7", "7", "9", "0", "4",
    "1", "7", "4", "4", "9", "7", "7", "9", "2" >>

\* float - int raises OverflowError
FloatOverflows(n) == ~MagLess(n.digits, FloatLimit)

-----------------------------------------------------------------------------
(* pytz *)

\* str.replace(old, new): the occurrences of old, left to right and not
\* overlapping, replaced
RECURSIVE Replace(_, _, _)
Replace(s, old, new) ==
    IF Len(s) < Len(old) THEN s
    ELSE IF SubSeq(s, 1, Len(old)) = old
         THEN new \o Replace(SubSeq(s, Len(old) + 1, Len(s)), old, new)
    ELSE <<Head(s)>> \o Replace(Tail(s), old, new)

\* pytz._unmunge_zone
Unmunge(zone) ==
    Replace(Replace(zone, <<"_","p","l","u","s","_">>, <<"+">>),
            <<"_","m","i","n","u","s","_">>, <<"-">>)

\* The characters of a string
Chars(s) == [i \in 1..Len(s) |-> SubSeq(s, i, i)]

\* pytz.all_timezones, release 2025b of the tz database: each name with
\* the row of TzFiles that holds its data.
AllTimezones == <<
    <<"Africa/Abidjan", 1>>,
    <<"Africa/Accra", 2>>,
    <<"Africa/Addis_Ababa", 3>>,
    <<"Africa/Algiers", 4>>,
    <<"Africa/Asmara", 3>>,
    <<"Africa/Asmera", 5>>,
    <<"Africa/Bamako", 6>>,
    <<"Africa/Bangui", 7>>,
    <<"Africa/Banjul", 8>>,
    <<"Africa/Bissau", 9>>,
    <<"Africa/Blantyre", 10>>,
    <<"Africa/Brazzaville", 11>>,
    <<"Africa/Bujumbura", 12>>,
    <<"Africa/Cairo", 13>>,
    <<"Africa/Casablanca", 14>>,
    <<"Africa/Ceuta", 15>>,
    <<"Africa/Conakry", 16>>,
    <<"Africa/Dakar", 17>>,
    <<"Africa/Dar_es_Salaam", 18>>,
    <<"Africa/Djibouti", 19>>,
    <<"Africa/Douala", 20>>,
    <<"Africa/El_Aaiun", 21>>,
    <<"Africa/Freetown", 22>>,
    <<"Africa/Gaborone", 23>>,
    <<"Africa/Harare", 24>>,
    <<"Africa/Johannesburg", 25>>,
    <<"Africa/Juba", 26>>,
    <<"Africa/Kampala", 27>>,
    <<"Africa/Khartoum", 28>>,
    <<"Africa/Kigali", 29>>,
    <<"Africa/Kinshasa", 30>>,
    <<"Africa/Lagos", 31>>,
    <<"Africa/Libreville", 32>>,
    <<"Africa/Lome", 33>>,
    <<"Africa/Luanda", 34>>,
    <<"Africa/Lubumbashi", 35>>,
    <<"Africa/Lusaka", 36>>,
    <<"Africa/Malabo", 37>>,
    <<"Africa/Maputo", 38>>,
    <<"Africa/Maseru", 39>>,
    <<"Africa/Mbabane", 40>>,
    <<"Africa/Mogadishu", 41>>,
    <<"Africa/Monrovia", 42>>,
    <<"Africa/Nairobi", 5>>,
    <<"Africa/Ndjamena", 43>>,
    <<"Africa/Niamey", 44>>,
    <<"Africa/Nouakchott", 45>>,
    <<"Africa/Ouagadougou", 46>>,
    <<"Africa/Porto-Novo", 47>>,
    <<"Africa/Sao_Tome", 48>>,
    <<"Africa/Timbuktu", 1>>,
    <<"Africa/Tripoli", 49>>,
    <<"Africa/Tunis", 50>>,
    <<"Africa/Windhoek", 51>>,
    <<"America/Adak", 52>>,
    <<"America/Anchorage", 53>>,
    <<"America/Anguilla", 54>>,
    <<"America/Antigua", 55>>,
    <<"America/Araguaina", 56>>,
    <<"America/Argentina/Buenos_Aires", 57>>,
    <<"America/Argentina/Catamarca", 58>>,
    <<"America/Argentina/ComodRivadavia", 58>>,
    <<"America/Argentina/Cordoba", 59>>,
    <<"America/Argentina/Jujuy", 60>>,
    <<"America/Argentina/La_Rioja", 61>>,
    <<"America/Argentina/Mendoza", 62>>,
    <<"America/Argentina/Rio_Gallegos", 63>>,
    <<"America/Argentina/Salta", 64>>,
    <<"America/Argentina/San_Juan", 65>>,
    <<"America/Argentina/San_Luis", 66>>,
    <<"America/Argentina/Tucuman", 67>>,
    <<"America/Argentina/Ushuaia", 68>>,
    <<"America/Aruba", 69>>,
    <<"America/Asuncion", 70>>,
    <<"America/Atikokan", 71>>,
    <<"America/Atka", 52>>,
    <<"America/Bahia", 72>>,
    <<"America/Bahia_Banderas", 73>>,
    <<"America/Barbados", 74>>,
    <<"America/Belem", 75>>,
    <<"America/Belize", 76>>,
    <<"America/Blanc-Sablon", 77>>,
    <<"America/Boa_Vista", 78>>,
    <<"America/Bogota", 79>>,
    <<"America/Boise", 80>>,
    <<"America/Buenos_Aires", 57>>,
    <<"America/Cambridge_Bay", 81>>,
    <<"America/Campo_Grande", 82>>,
    <<"America/Cancun", 83>>,
    <<"America/Caracas", 84>>,
    <<"America/Catamarca", 58>>,
    <<"America/Cayenne", 85>>,
    <<"America/Cayman", 86>>,
    <<"America/Chicago", 87>>,
    <<"America/Chihuahua", 88>>,
    <<"America/Ciudad_Juarez", 89>>,
    <<"America/Coral_Harbour", 90>>,
    <<"America/Cordoba", 59>>,
    <<"America/Costa_Rica", 91>>,
    <<"America/Coyhaique", 92>>,
    <<"America/Creston", 93>>,
    <<"America/Cuiaba", 94>>,
    <<"America/Curacao", 95>>,
    <<"America/Danmarkshavn", 96>>,
    <<"America/Dawson", 97>>,
    <<"America/Dawson_Creek", 98>>,
    <<"America/Denver", 99>>,
    <<"America/Detroit", 100>>,
    <<"America/Dominica", 101>>,
    <<"America/Edmonton", 102>>,
    <<"America/Eirunepe", 103>>,
    <<"America/El_Salvador", 104>>,
    <<"America/Ensenada", 105>>,
    <<"America/Fort_Nelson", 106>>,
    <<"America/Fort_Wayne", 107>>,
    <<"America/Fortaleza", 108>>,
    <<"America/Glace_Bay", 109>>,
    <<"America/Godthab", 110>>,
    <<"America/Goose_Bay", 111>>,
    <<"America/Grand_Turk", 112>>,
    <<"America/Grenada", 113>>,
    <<"America/Guadeloupe", 114>>,
    <<"America/Guatemala", 115>>,
    <<"America/Guayaquil", 116>>,
    <<"America/Guyana", 117>>,
    <<"America/Halifax", 118>>,
    <<"America/Havana", 119>>,
    <<"America/Hermosillo", 120>>,
    <<"America/Indiana/Indianapolis", 107>>,
    <<"America/Indiana/Knox", 121>>,
    <<"America/Indiana/Marengo", 122>>,
    <<"America/Indiana/Petersburg", 123>>,
    <<"America/Indiana/Tell_City", 124>>,
    <<"America/Indiana/Vevay", 125>>,
    <<"America/Indiana/Vincennes", 126>>,
    <<"America/Indiana/Winamac", 127>>,
    <<"America/Indianapolis", 107>>,
    <<"America/Inuvik", 128>>,
    <<"America/Iqaluit", 129>>,
    <<"America/Jamaica", 130>>,
    <<"America/Jujuy", 60>>,
    <<"America/Juneau", 131>>,
    <<"America/Kentucky/Louisville", 132>>,
    <<"America/Kentucky/Monticello", 133>>,
    <<"America/Knox_IN", 121>>,
    <<"America/Kralendijk", 134>>,
    <<"America/La_Paz", 135>>,
    <<"America/Lima", 136>>,
    <<"America/Los_Angeles", 137>>,
    <<"America/Louisville", 132>>,
    <<"America/Lower_Princes", 134>>,
    <<"America/Maceio", 138>>,
    <<"America/Managua", 139>>,
    <<"America/Manaus", 140>>,
    <<"America/Marigot", 134>>,
    <<"America/Martinique", 141>>,
    <<"America/Matamoros", 142>>,
    <<"America/Mazatlan", 143>>,
    <<"America/Mendoza", 62>>,
    <<"America/Menominee", 144>>,
    <<"America/Merida", 145>>,
    <<"America/Metlakatla", 146>>,
    <<"America/Mexico_City", 147>>,
    <<"America/Miquelon", 148>>,
    <<"America/Moncton", 149>>,
    <<"America/Monterrey", 150>>,
    <<"America/Montevideo", 151>>,
    <<"America/Montreal", 152>>,
    <<"America/Montserrat", 153>>,
    <<"America/Nassau", 154>>,
    <<"America/New_York", 155>>,
    <<"America/Nipigon", 152>>,
    <<"America/Nome", 156>>,
    <<"America/Noronha", 157>>,
    <<"America/North_Dakota/Beulah", 158>>,
    <<"America/North_Dakota/Center", 159>>,
    <<"America/North_Dakota/New_Salem", 160>>,
    <<"America/Nuuk", 110>>,
    <<"America/Ojinaga", 161>>,
    <<"America/Panama", 90>>,
    <<"America/Pangnirtung", 129>>,
    <<"America/Paramaribo", 162>>,
    <<"America/Phoenix", 163>>,
    <<"America/Port-au-Prince", 164>>,
    <<"America/Port_of_Spain", 165>>,
    <<"America/Porto_Acre", 166>>,
    <<"America/Porto_Velho", 167>>,
    <<"America/Puerto_Rico", 134>>,
    <<"America/Punta_Arenas", 168>>,
    <<"America/Rainy_River", 169>>,
    <<"America/Rankin_Inlet", 170>>,
    <<"America/Recife", 171>>,
    <<"America/Regina", 172>>,
    <<"America/Resolute", 173>>,
    <<"America/Rio_Branco", 166>>,
    <<"America/Rosario", 59>>,
    <<"America/Santa_Isabel", 105>>,
    <<"America/Santarem", 174>>,
    <<"America/Santiago", 175>>,
    <<"America/Santo_Domingo", 176>>,
    <<"America/Sao_Paulo", 177>>,
    <<"America/Scoresbysund", 178>>,
    <<"America/Shiprock", 99>>,
    <<"America/Sitka", 179>>,
    <<"America/St_Barthelemy", 134>>,
    <<"America/St_Johns", 180>>,
    <<"America/St_Kitts", 181>>,
    <<"America/St_Lucia", 182>>,
    <<"America/St_Thomas", 183>>,
    <<"America/St_Vincent", 184>>,
    <<"America/Swift_Current", 185>>,
    <<"America/Tegucigalpa", 186>>,
    <<"America/Thule", 187>>,
    <<"America/Thunder_Bay", 152>>,
    <<"America/Tijuana", 105>>,
    <<"America/Toronto", 152>>,
    <<"America/Tortola", 188>>,
    <<"America/Vancouver", 189>>,
    <<"America/Virgin", 134>>,
    <<"America/Whitehorse", 190>>,
    <<"America/Winnipeg", 169>>,
    <<"America/Yakutat", 191>>,
    <<"America/Yellowknife", 102>>,
    <<"Antarctica/Casey", 192>>,
    <<"Antarctica/Davis", 193>>,
    <<"Antarctica/DumontDUrville", 194>>,
    <<"Antarctica/Macquarie", 195>>,
    <<"Antarctica/Mawson", 196>>,
    <<"Antarctica/McMurdo", 197>>,
    <<"Antarctica/Palmer", 198>>,
    <<"Antarctica/Rothera", 199>>,
    <<"Antarctica/South_Pole", 200>>,
    <<"Antarctica/Syowa", 201>>,
    <<"Antarctica/Troll", 202>>,
    <<"Antarctica/Vostok", 203>>,
    <<"Arctic/Longyearbyen", 204>>,
    <<"Asia/Aden", 205>>,
    <<"Asia/Almaty", 206>>,
    <<"Asia/Amman", 207>>,
    <<"Asia/Anadyr", 208>>,
    <<"Asia/Aqtau", 209>>,
    <<"Asia/Aqtobe", 210>>,
    <<"Asia/Ashgabat", 211>>,
    <<"Asia/Ashkhabad", 211>>,
    <<"Asia/Atyrau", 212>>,
    <<"Asia/Baghdad", 213>>,
    <<"Asia/Bahrain", 214>>,
    <<"Asia/Baku", 215>>,
    <<"Asia/Bangkok", 216>>,
    <<"Asia/Barnaul", 217>>,
    <<"Asia/Beirut", 218>>,
    <<"Asia/Bishkek", 219>>,
    <<"Asia/Brunei", 220>>,
    <<"Asia/Calcutta", 221>>,
    <<"Asia/Chita", 222>>,
    <<"Asia/Choibalsan", 223>>,
    <<"Asia/Chongqing", 224>>,
    <<"Asia/Chungking", 224>>,
    <<"Asia/Colombo", 225>>,
    <<"Asia/Dacca", 226>>,
    <<"Asia/Damascus", 227>>,
    <<"Asia/Dhaka", 226>>,
    <<"Asia/Dili", 228>>,
    <<"Asia/Dubai", 229>>,
    <<"Asia/Dushanbe", 230>>,
    <<"Asia/Famagusta", 231>>,
    <<"Asia/Gaza", 232>>,
    <<"Asia/Harbin", 224>>,
    <<"Asia/Hebron", 233>>,
    <<"Asia/Ho_Chi_Minh", 234>>,
    <<"Asia/Hong_Kong", 235>>,
    <<"Asia/Hovd", 236>>,
    <<"Asia/Irkutsk", 237>>,
    <<"Asia/Istanbul", 238>>,
    <<"Asia/Jakarta", 239>>,
    <<"Asia/Jayapura", 240>>,
    <<"Asia/Jerusalem", 241>>,
    <<"Asia/Kabul", 242>>,
    <<"Asia/Kamchatka", 243>>,
    <<"Asia/Karachi", 244>>,
    <<"Asia/Kashgar", 245>>,
    <<"Asia/Kathmandu", 246>>,
    <<"Asia/Katmandu", 246>>,
    <<"Asia/Khandyga", 247>>,
    <<"Asia/Kolkata", 221>>,
    <<"Asia/Krasnoyarsk", 248>>,
    <<"Asia/Kuala_Lumpur", 249>>,
    <<"Asia/Kuching", 250>>,
    <<"Asia/Kuwait", 251>>,
    <<"Asia/Macao", 252>>,
    <<"Asia/Macau", 252>>,
    <<"Asia/Magadan", 253>>,
    <<"Asia/Makassar", 254>>,
    <<"Asia/Manila", 255>>,
    <<"Asia/Muscat", 256>>,
    <<"Asia/Nicosia", 257>>,
    <<"Asia/Novokuznetsk", 258>>,
    <<"Asia/Novosibirsk", 259>>,
    <<"Asia/Omsk", 260>>,
    <<"Asia/Oral", 261>>,
    <<"Asia/Phnom_Penh", 262>>,
    <<"Asia/Pontianak", 263>>,
    <<"Asia/Pyongyang", 264>>,
    <<"Asia/Qatar", 265>>,
    <<"Asia/Qostanay", 266>>,
    <<"Asia/Qyzylorda", 267>>,
    <<"Asia/Rangoon", 268>>,
    <<"Asia/Riyadh", 269>>,
    <<"Asia/Saigon", 234>>,
    <<"Asia/Sakhalin", 270>>,
    <<"Asia/Samarkand", 271>>,
    <<"Asia/Seoul", 272>>,
    <<"Asia/Shanghai", 224>>,
    <<"Asia/Singapore", 249>>,
    <<"Asia/Srednekolymsk", 273>>,
    <<"Asia/Taipei", 274>>,
    <<"Asia/Tashkent", 275>>,
    <<"Asia/Tbilisi", 276>>,
    <<"Asia/Tehran", 277>>,
    <<"Asia/Tel_Aviv", 241>>,
    <<"Asia/Thimbu", 278>>,
    <<"Asia/Thimphu", 278>>,
    <<"Asia/Tokyo", 279>>,
    <<"Asia/Tomsk", 280>>,
    <<"Asia/Ujung_Pandang", 254>>,
    <<"Asia/Ulaanbaatar", 223>>,
    <<"Asia/Ulan_Bator", 223>>,
    <<"Asia/Urumqi", 245>>,
    <<"Asia/Ust-Nera", 281>>,
    <<"Asia/Vientiane", 282>>,
    <<"Asia/Vladivostok", 283>>,
    <<"Asia/Yakutsk", 284>>,
    <<"Asia/Yangon", 268>>,
    <<"Asia/Yekaterinburg", 285>>,
    <<"Asia/Yerevan", 286>>,
    <<"Atlantic/Azores", 287>>,
    <<"Atlantic/Bermuda", 288>>,
    <<"Atlantic/Canary", 289>>,
    <<"Atlantic/Cape_Verde", 290>>,
    <<"Atlantic/Faeroe", 291>>,
    <<"Atlantic/Faroe", 291>>,
    <<"Atlantic/Jan_Mayen", 204>>,
    <<"Atlantic/Madeira", 292>>,
    <<"Atlantic/Reykjavik", 293>>,
    <<"Atlantic/South_Georgia", 294>>,
    <<"Atlantic/St_Helena", 295>>,
    <<"Atlantic/Stanley", 296>>,
    <<"Australia/ACT", 297>>,
    <<"Australia/Adelaide", 298>>,
    <<"Australia/Brisbane", 299>>,
    <<"Australia/Broken_Hill", 300>>,
    <<"Australia/Canberra", 297>>,
    <<"Australia/Currie", 301>>,
    <<"Australia/Darwin", 302>>,
    <<"Australia/Eucla", 303>>,
    <<"Australia/Hobart", 301>>,
    <<"Australia/LHI", 304>>,
    <<"Australia/Lindeman", 305>>,
    <<"Australia/Lord_Howe", 304>>,
    <<"Australia/Melbourne", 306>>,
    <<"Australia/NSW", 297>>,
    <<"Australia/North", 302>>,
    <<"Australia/Perth", 307>>,
    <<"Australia/Queensland", 299>>,
    <<"Australia/South", 298>>,
    <<"Australia/Sydney", 297>>,
    <<"Australia/Tasmania", 301>>,
    <<"Australia/Victoria", 306>>,
    <<"Australia/West", 307>>,
    <<"Australia/Yancowinna", 300>>,
    <<"Brazil/Acre", 166>>,
    <<"Brazil/DeNoronha", 157>>,
    <<"Brazil/East", 177>>,
    <<"Brazil/West", 140>>,
    <<"CET", 308>>,
    <<"CST6CDT", 87>>,
    <<"Canada/Atlantic", 118>>,
    <<"Canada/Central", 169>>,
    <<"Canada/Eastern", 152>>,
    <<"Canada/Mountain", 102>>,
    <<"Canada/Newfoundland", 180>>,
    <<"Canada/Pacific", 189>>,
    <<"Canada/Saskatchewan", 172>>,
    <<"Canada/Yukon", 190>>,
    <<"Chile/Continental", 175>>,
    <<"Chile/EasterIsland", 309>>,
    <<"Cuba", 119>>,
    <<"EET", 310>>,
    <<"EST", 90>>,
    <<"EST5EDT", 155>>,
    <<"Egypt", 13>>,
    <<"Eire", 311>>,
    <<"Etc/GMT", 33>>,
    <<"Etc/GMT+0", 33>>,
    <<"Etc/GMT+1", 312>>,
    <<"Etc/GMT+10", 313>>,
    <<"Etc/GMT+11", 314>>,
    <<"Etc/GMT+12", 315>>,
    <<"Etc/GMT+2", 316>>,
    <<"Etc/GMT+3", 317>>,
    <<"Etc/GMT+4", 318>>,
    <<"Etc/GMT+5", 319>>,
    <<"Etc/GMT+6", 320>>,
    <<"Etc/GMT+7", 321>>,
    <<"Etc/GMT+8", 322>>,
    <<"Etc/GMT+9", 323>>,
    <<"Etc/GMT-0", 33>>,
    <<"Etc/GMT-1", 324>>,
    <<"Etc/GMT-10", 325>>,
    <<"Etc/GMT-11", 326>>,
    <<"Etc/GMT-12", 327>>,
    <<"Etc/GMT-13", 328>>,
    <<"Etc/GMT-14", 329>>,
    <<"Etc/GMT-2", 330>>,
    <<"Etc/GMT-3", 331>>,
    <<"Etc/GMT-4", 332>>,
    <<"Etc/GMT-5", 333>>,
    <<"Etc/GMT-6", 334>>,
    <<"Etc/GMT-7", 335>>,
    <<"Etc/GMT-8", 336>>,
    <<"Etc/GMT-9", 337>>,
    <<"Etc/GMT0", 33>>,
    <<"Etc/Greenwich", 33>>,
    <<"Etc/UCT", 338>>,
    <<"Etc/UTC", 338>>,
    <<"Etc/Universal", 338>>,
    <<"Etc/Zulu", 338>>,
    <<"Europe/Amsterdam", 339>>,
    <<"Europe/Andorra", 340>>,
    <<"Europe/Astrakhan", 341>>,
    <<"Europe/Athens", 310>>,
    <<"Europe/Belfast", 342>>,
    <<"Europe/Belgrade", 343>>,
    <<"Europe/Berlin", 204>>,
    <<"Europe/Bratislava", 344>>,
    <<"Europe/Brussels", 308>>,
    <<"Europe/Bucharest", 345>>,
    <<"Europe/Budapest", 346>>,
    <<"Europe/Busingen", 347>>,
    <<"Europe/Chisinau", 348>>,
    <<"Europe/Copenhagen", 349>>,
    <<"Europe/Dublin", 311>>,
    <<"Europe/Gibraltar", 350>>,
    <<"Europe/Guernsey", 351>>,
    <<"Europe/Helsinki", 352>>,
    <<"Europe/Isle_of_Man", 342>>,
    <<"Europe/Istanbul", 238>>,
    <<"Europe/Jersey", 353>>,
    <<"Europe/Kaliningrad", 354>>,
    <<"Europe/Kiev", 355>>,
    <<"Europe/Kirov", 356>>,
    <<"Europe/Kyiv", 355>>,
    <<"Europe/Lisbon", 357>>,
    <<"Europe/Ljubljana", 358>>,
    <<"Europe/London", 342>>,
    <<"Europe/Luxembourg", 359>>,
    <<"Europe/Madrid", 360>>,
    <<"Europe/Malta", 361>>,
    <<"Europe/Mariehamn", 352>>,
    <<"Europe/Minsk", 362>>,
    <<"Europe/Monaco", 363>>,
    <<"Europe/Moscow", 364>>,
    <<"Europe/Nicosia", 257>>,
    <<"Europe/Oslo", 365>>,
    <<"Europe/Paris", 366>>,
    <<"Europe/Podgorica", 343>>,
    <<"Europe/Prague", 344>>,
    <<"Europe/Riga", 367>>,
    <<"Europe/Rome", 368>>,
    <<"Europe/Samara", 369>>,
    <<"Europe/San_Marino", 368>>,
    <<"Europe/Sarajevo", 358>>,
    <<"Europe/Saratov", 370>>,
    <<"Europe/Simferopol", 371>>,
    <<"Europe/Skopje", 358>>,
    <<"Europe/Sofia", 372>>,
    <<"Europe/Stockholm", 373>>,
    <<"Europe/Tallinn", 374>>,
    <<"Europe/Tirane", 375>>,
    <<"Europe/Tiraspol", 348>>,
    <<"Europe/Ulyanovsk", 376>>,
    <<"Europe/Uzhgorod", 355>>,
    <<"Europe/Vaduz", 347>>,
    <<"Europe/Vatican", 368>>,
    <<"Europe/Vienna", 377>>,
    <<"Europe/Vilnius", 378>>,
    <<"Europe/Volgograd", 379>>,
    <<"Europe/Warsaw", 380>>,
    <<"Europe/Zagreb", 358>>,
    <<"Europe/Zaporozhye", 355>>,
    <<"Europe/Zurich", 347>>,
    <<"GB", 342>>,
    <<"GB-Eire", 342>>,
    <<"GMT", 33>>,
    <<"GMT+0", 33>>,
    <<"GMT-0", 33>>,
    <<"GMT0", 33>>,
    <<"Greenwich", 33>>,
    <<"HST", 381>>,
    <<"Hongkong", 235>>,
    <<"Iceland", 1>>,
    <<"Indian/Antananarivo", 382>>,
    <<"Indian/Chagos", 383>>,
    <<"Indian/Christmas", 384>>,
    <<"Indian/Cocos", 385>>,
    <<"Indian/Comoro", 386>>,
    <<"Indian/Kerguelen", 387>>,
    <<"Indian/Mahe", 388>>,
    <<"Indian/Maldives", 389>>,
    <<"Indian/Mauritius", 390>>,
    <<"Indian/Mayotte", 391>>,
    <<"Indian/Reunion", 392>>,
    <<"Iran", 277>>,
    <<"Israel", 241>>,
    <<"Jamaica", 130>>,
    <<"Japan", 279>>,
    <<"Kwajalein", 393>>,
    <<"Libya", 49>>,
    <<"MET", 308>>,
    <<"MST", 163>>,
    <<"MST7MDT", 99>>,
    <<"Mexico/BajaNorte", 105>>,
    <<"Mexico/BajaSur", 143>>,
    <<"Mexico/General", 147>>,
    <<"NZ", 200>>,
    <<"NZ-CHAT", 394>>,
    <<"Navajo", 99>>,
    <<"PRC", 224>>,
    <<"PST8PDT", 137>>,
    <<"Pacific/Apia", 395>>,
    <<"Pacific/Auckland", 200>>,
    <<"Pacific/Bougainville", 396>>,
    <<"Pacific/Chatham", 394>>,
    <<"Pacific/Chuuk", 397>>,
    <<"Pacific/Easter", 309>>,
    <<"Pacific/Efate", 398>>,
    <<"Pacific/Enderbury", 399>>,
    <<"Pacific/Fakaofo", 400>>,
    <<"Pacific/Fiji", 401>>,
    <<"Pacific/Funafuti", 402>>,
    <<"Pacific/Galapagos", 403>>,
    <<"Pacific/Gambier", 404>>,
    <<"Pacific/Guadalcanal", 405>>,
    <<"Pacific/Guam", 406>>,
    <<"Pacific/Honolulu", 381>>,
    <<"Pacific/Johnston", 381>>,
    <<"Pacific/Kanton", 399>>,
    <<"Pacific/Kiritimati", 407>>,
    <<"Pacific/Kosrae", 408>>,
    <<"Pacific/Kwajalein", 393>>,
    <<"Pacific/Majuro", 409>>,
    <<"Pacific/Marquesas", 410>>,
    <<"Pacific/Midway", 411>>,
    <<"Pacific/Nauru", 412>>,
    <<"Pacific/Niue", 413>>,
    <<"Pacific/Norfolk", 414>>,
    <<"Pacific/Noumea", 415>>,
    <<"Pacific/Pago_Pago", 416>>,
    <<"Pacific/Palau", 417>>,
    <<"Pacific/Pitcairn", 418>>,
    <<"Pacific/Pohnpei", 419>>,
    <<"Pacific/Ponape", 405>>,
    <<"Pacific/Port_Moresby", 420>>,
    <<"Pacific/Rarotonga", 421>>,
    <<"Pacific/Saipan", 422>>,
    <<"Pacific/Samoa", 416>>,
    <<"Pacific/Tahiti", 423>>,
    <<"Pacific/Tarawa", 402>>,
    <<"Pacific/Tongatapu", 424>>,
    <<"Pacific/Truk", 420>>,
    <<"Pacific/Wake", 402>>,
    <<"Pacific/Wallis", 402>>,
    <<"Pacific/Yap", 420>>,
    <<"Poland", 380>>,
    <<"Portugal", 357>>,
    <<"ROC", 274>>,
    <<"ROK", 272>>,
    <<"Singapore", 249>>,
    <<"Turkey", 238>>,
    <<"UCT", 338>>,
    <<"US/Alaska", 53>>,
    <<"US/Aleutian", 52>>,
    <<"US/Arizona", 163>>,
    <<"US/Central", 87>>,
    <<"US/East-Indiana", 107>>,
    <<"US/Eastern", 155>>,
    <<"US/Hawaii", 381>>,
    <<"US/Indiana-Starke", 121>>,
    <<"US/Michigan", 100>>,
    <<"US/Mountain", 99>>,
    <<"US/Pacific", 137>>,
    <<"US/Samoa", 416>>,
    <<"UTC", 338>>,
    <<"Universal", 338>>,
    <<"W-SU", 364>>,
    <<"WET", 357>>,
    <<"Zulu", 338>> >>

\* The zone files as pytz.tzfile.build_tzinfo reads them. tt: the
\* (utcoffset, dst, tzname) the zone has had, each as a signed utcoffset
\* and a signed dst of five digits, in seconds rounded to the minute, and a
\* name of five characters. at: the transitions, each as a signed time of ten
\* digits and the two-digit position in tt of what is in force from then on.
TzFiles == <<
    [tt |-> "-00960+00000LMT  +00000+00000GMT  ",
     at |-> "-183038303202"],
    [tt |-> "-00060+00000LMT  +00000+00000GMT  +01200+01200+0020+01800+00000+0030+01800+01800+0030",
     at |-> "-170933754802-158120640003-157791720002-155683440003-154629480002-152529840003-151475880002-149376240003-148322280002-146222640003-145168680002-143060400003-142006440002-139906800003-138852840002-136753200003-135699240002-133599600003-132545640002-130437360003-129383400002-127283760003-126229800002-124130160003-123076200002-120976560003-119922600002-117814320003-116760360002-114660720003-113606760002-111507120003-110453160002-108353520003-107299560002-105191280003-104137320002-102037680003-100983720002-098884080003-097830120002-095730480003-094676520002-093630960003-091514280002-090477360003-088360680002-088032960004-075695220002-061014960005-059961060002-057861360005-056807460002-054699120005-053645220002-051545520005-050491620002-048391920005-047338020002-045238320005-044184420002"],
    [tt |-> "+09300+00000ADMT +10800+00000EAT  ",
     at |-> "-106221092002"],
    [tt |-> "+00540+00000PMT  +00000+00000WET  +03600+03600WEST +03600+00000CET  +07200+03600CEST ",
     at |-> "-185595896102-168981480003-168039720002-166536360003-164834280002-163512360003-161689320002-160427880003-158544360002-157403880003-155226600002-153999720003-153144360002-095636520003-095048640002-094201200004-081250200005-079626240004-078105240005-076663080004-073328040002-043943040004-021202920002+004146840003+005477400002+023172480003+024623640004+025954560005+027527400004+030974040002+032546880003+034180200002+035752320004"],
    [tt |-> "+08820+00000LMT  +09000+00000+0230+10800+00000EAT  +09900+00000+0245",
     at |-> "-194616883602-130974660003-126196920002-104138820004-086530590003"],
    [tt |-> "-01920+00000LMT  +00000+00000GMT  -03600+00000-01  ",
     at |-> "-183038208002-113123520003-030084120002"],
    [tt |-> "+04440+00000LMT  +03600+00000WAT  ",
     at |-> "-183038846002"],
    [tt |-> "-04020+00000LMT  -04020+00000BMT  -03600+00000-01  +00000+00000GMT  ",
     at |-> "-183038000402-115982960403-088093080004"],
    [tt |-> "-03720+00000LMT  -03600+00000-01  +00000+00000GMT  ",
     at |-> "-183038040002+015777000003"],
    [tt |-> "+08400+00000LMT  +08460+00000ZMT  +07200+00000CAT  ",
     at |-> "-184430280002-175168207002-140444046003"],
    [tt |-> "+03660+00000LMT  +03600+00000WAT  ",
     at |-> "-183038766802"],
    [tt |-> "+07200+00000CAT  ",
     at |-> ""],
    [tt |-> "+07200+00000EET  +10800+03600EEST ",
     at |-> "-092984400002-092310840001-090617040002-089286840001-087584400002-085779000001-084430800002-082582200001-081268560002-079419960001-077985360002-076266360001-039908880002-038665080001-036833040002-035511480001-033679080002-032365440001-030516840002-029203200001-027363240002-026049600001-024209640002-022896000001-021056040002-019742400001-017893800002-016580160001-014740200002-013426560001-011586600002-010264320001-008433000002-007110720001-005270760002-003948480001-002117160002-000794880001+001036440002+002358720001+004190040002+005512320001+007352280002+008674560001+010505880002+011828160001+013659480002+014981760001+016813080002+018135360001+019975320002+021297600001+023128920002+024451200001+026282520002+027604800001+029436120002+030758400001+032598360002+033920640001+035751960002+037074240001+039639960002+040227840001+042681240002+043381440001+045221400002+046543680001+048375000002+049697280001+051528600002+052850880001+054682200002+056004480001+057844440002+059166720001+061041240002+062320320001+064151640002+065473920001+067305240002+068627520001+070467480002+071789760001+073621080002+074943360001+076774680002+078096960001+079902000002+081232200001+083046960002+084377160001+086191920002+087522120001+089336880002+090667080001+092542320002+093872520001+095687280002+097017480001+098832240002+100162440001+101977200002+103307400001+105122160002+106452360001+108327600002+109657800001+111472560002+112802760001+114617520002+115887240001+117762480002+118911240001+120907440002+121995720001+124052400002+125080200001+127257840002+128147400001+128406960002+128588040001+140019120002+140381640001+140684400002+141167880001+168263280002+169835400001+171408240002+173040840001+174553200002+176185800001+177698160002+179330760001+180903600002+182475720001+184048560002+185620680001+187193520002+188765640001+190338480002+191971080001+193483440002+195116040001+196688880002+198261000001+199833840002+201405960001+202978800002+204550920001+206123760002+207695880001+209268720002+210901320001+212413680002+214046280001"],
    [tt |-> "-01800+00000LMT  +00000+00000+00  +03600+03600+01  +03600+00000+01  +00000-03600+00  ",
     at |-> "-177301258002-095636160003-095049000002-094201920003-076118760002-061724160003-060514920002-008143200003-007111080002+014126400003+014722200002+019975680003+020770200002+023129280003+024424920002+026550720003+027103320002+044824320004+050491800002+121227840003+122022360002+124381440003+125080920002+127275840003+128122200002+130178880003+131206680002+133566480003+134274960002+134542800003+134897040002+136711440003+137316240002+137610000003+138283920002+139614480003+140392080002+140694480003+141428880002+142759440003+143424720002+143727120003+144573840002+145904400003+146509200002+146811600003+147779280002+149049360003+149533200002+149896080003+150924240002+152194320003+152617680002+152920080003+154069200004+155702160005+156004560004+158726160005+159089040004+161810640005+162113040004+164834640005+165197520004+167919120005+168221520004+171003600005+171306000004+174027600005+174390480004+177112080005+177414480004+180196560005+180498960004+183220560005+183583440004+186305040005+186607440004+189329040005+189691920004+192413520005+192715920004+195498000005+195800400004+198522000005+198884880004+201606480005+201908880004+204630480005+204993360004+207714960005+208077840004+210799440005+211101840004+213823440005+214186320004"],
    [tt |-> "+00000+00000WET  +03600+03600WEST +03600+00000CET  +07200+03600CEST ",
     at |-> "-163011240002-161681040001-144245160002-142767360001-137929320002-136477440001-134844840002-133332480001-131639040002-130127040001-008143200002-007111080001+014126400002+014722200001+019975680002+020770200001+023129280002+024424920001+026550720002+027103320001+044824320003+051252840004+052825320003+054397800004+055970280003+057542760004+059115240003+060687720004+062260200003+063832680004+065465640003+067038120004+068610600003+070183080004+071755560003+073328040004+074900520003+076473000004+078045480003+079617960004+081190440003+082823400004+084637800003+085968360004+087782760003+089113320004+090927720003+092258280004+094133160003+095403240004+097278120003+098548200004+100423080003+101753640004+103568040003+104898600004+106713000003+108043560004+109918440003+111188520004+113063400003+114333480004+116208360003+117478440004+119353320003+120683880004+122498280003+123828840004+125643240003+126973800004+128848680003+130118760004+131993640003+133263720004+135138600003+136469160004+138283560003+139614120004+141428520003+142759080004+144573480003+145904040004+147778920003+149049000004+150923880003+152193960004+154068840003+155399400004+157213800003+158544360004+160358760003+161689320004+163564200003+164834280004+166709160003+167979240004+169854120003+171184680004+172999080003+174329640004+176144040003+177474600004+179289000003+180619560004+182494440003+183764520004+185639400003+186909480004+188784360003+190114920004+191929320003+193259880004+195074280003+196404840004+198279720003+199549800004+201424680003+202694760004+204569640003+205839720004+207714600003+209045160004+210859560003+212190120004+214004520003"],
    [tt |-> "-03300+00000LMT  +00000+00000GMT  -03600+00000-01  ",
     at |-> "-183038070802-113123520003-031561560002"],
    [tt |-> "-04200+00000LMT  -03600+00000-01  +00000+00000GMT  ",
     at |-> "-183037981602-090209880003"],
    [tt |-> "+09420+00000LMT  +10800+00000EAT  +09900+00000+0245",
     at |-> "-123077742802-069432120003-028400670002"],
    [tt |-> "+10380+00000LMT  +10800+00000EAT  ",
     at |-> "-184629195602"],
    [tt |-> "+02340+00000LMT  +03600+00000WAT  ",
     at |-> "-183038632802"],
    [tt |-> "-03180+00000LMT  -03600+00000-01  +00000+00000+00  +03600+03600+01  +03600+00000+01  +00000-03600+00  ",
     at |-> "-113607043202+019829160003+019975680004+020770200003+023129280004+024424920003+026550720004+027103320003+121227840004+122022360003+124381440004+125080920003+127275840004+128122200003+130178880004+131206680003+133566480004+134274960003+134542800004+134897040003+136711440004+137316240003+137610000004+138283920003+139614480004+140392080003+140694480004+141428880003+142759440004+143424720003+143727120004+144573840003+145904400004+146509200003+146811600004+147779280003+149049360004+149533200003+149896080004+150924240003+152194320004+152617680003+152920080004+154069200005+155702160006+156004560005+158726160006+159089040005+161810640006+162113040005+164834640006+165197520005+167919120006+168221520005+171003600006+171306000005+174027600006+174390480005+177112080006+177414480005+180196560006+180498960005+183220560006+183583440005+186305040006+186607440005+189329040006+189691920005+192413520006+192715920005+195498000006+195800400005+198522000006+198884880005+201606480006+201908880005+204630480006+204993360005+207714960006+208077840005+210799440006+211101840005+213823440006+214186320005"],
    [tt |-> "-03180+00000FMT  -03600+00000-01  -02400+01200-0040+00000+00000GMT  ",
     at |-> "-178312002002-117028440003-115983120002-114661080003-112829520002-111507480003-109675920002-108353880003-106513680002-105191640003-103360080002-102038040003-100206480002-098884440003-096525840002-095730840003-095696400002-088576920004"],
    [tt |-> "+05400+00000SAST +07200+00000CAT  +10800+03600CAST ",
     at |-> "-210928860002-082952640003-081380520002"],
    [tt |-> "+07440+00000LMT  +07200+00000CAT  ",
     at |-> "-210929065202"],
    [tt |-> "+05400+00000SAST +07200+00000SAST +10800+03600SAST ",
     at |-> "-210928860002-086097600003-084525480002-082952640003-081380520002"],
    [tt |-> "+07560+00000LMT  +07200+00000CAT  +10800+03600CAST +10800+00000EAT  ",
     at |-> "-123077558802+001036080003+002478600002+004181040003+005632200002+007343280003+008794440002+010488240003+011948040002+013633200003+015101640002+016778160003+018255240002+019923120003+021417480002+023068080003+024571080002+026273520003+027724680002+029418480003+030878280002+032563440003+034040520002+035708400003+037194120002+038853360003+040347720002+041998320003+043501320002+045203760003+046663560002+048348720003+049817160002+094793040004+161212680002"],
    [tt |-> "+07800+00000LMT  +10800+00000EAT  +09000+00000+0230+09900+00000+0245",
     at |-> "-130974538002-126231480003-069431940004-041023710002"],
    [tt |-> "+07800+00000LMT  +07200+00000CAT  +10800+03600CAST +10800+00000EAT  ",
     at |-> "-123077580802+001036080003+002478600002+004181040003+005632200002+007343280003+008794440002+010488240003+011948040002+013633200003+015101640002+016778160003+018255240002+019923120003+021417480002+023068080003+024571080002+026273520003+027724680002+029418480003+030878280002+032563440003+034040520002+035708400003+037194120002+038853360003+040347720002+041998320003+043501320002+045203760003+046663560002+048348720003+049817160002+094793040004+150948360002"],
    [tt |-> "+07200+00000LMT  +07200+00000CAT  ",
     at |-> "-109149841602"],
    [tt |-> "+03600+00000WAT  ",
     at |-> ""],
    [tt |-> "+00840+00000LMT  +00000+00000GMT  +01800+00000+0030+03600+00000WAT  ",
     at |-> "-203558481502-194088960001-176722641503-158846580004"],
    [tt |-> "+02280+00000LMT  +03600+00000WAT  ",
     at |-> "-183038626802"],
    [tt |-> "+00000+00000GMT  ",
     at |-> ""],
    [tt |-> "+03120+00000LMT  +03600+00000WAT  ",
     at |-> "-183038760002"],
    [tt |-> "+03600+00000WAT  +07200+00000CAT  ",
     at |-> "-156799080002"],
    [tt |-> "+06780+00000LMT  +07200+00000CAT  ",
     at |-> "-210928998802"],
    [tt |-> "+02100+00000LMT  +00000+00000GMT  +03600+00000WAT  ",
     at |-> "-183038610802-019085760003"],
    [tt |-> "+07800+00000LMT  +07200+00000CAT  ",
     at |-> "-192499981802"],
    [tt |-> "+06600+00000LMT  +07200+00000SAST +10800+03600SAST ",
     at |-> "-210928980002-082952640003-081380520002"],
    [tt |-> "+07440+00000LMT  +07200+00000SAST ",
     at |-> "-210929066402"],
    [tt |-> "+10800+00000EAT  +09000+00000+0230",
     at |-> "-123077880002-041023620001"],
    [tt |-> "-02580+00000MMT  -02640+00000MMT  +00000+00000GMT  ",
     at |-> "-160435901202+006359307003"],
    [tt |-> "+03600+00000LMT  +03600+00000WAT  +07200+03600WAST ",
     at |-> "-183038761202+030870360003+032131440002"],
    [tt |-> "+00480+00000LMT  -03600+00000-01  +00000+00000GMT  +03600+00000WAT  ",
     at |-> "-183038450802-113123160003-031561920004"],
    [tt |-> "-03840+00000LMT  +00000+00000GMT  -03600+00000-01  ",
     at |-> "-183038017202-113123520003-028693080002"],
    [tt |-> "-00360+00000LMT  +00000+00000GMT  ",
     at |-> "-183038363602"],
    [tt |-> "+00600+00000LMT  +00000+00000GMT  +03600+00000WAT  ",
     at |-> "-183038462802-113123520003"],
    [tt |-> "-02220+00000LMT  +00000+00000GMT  +03600+00000WAT  ",
     at |-> "-183038400002+151476840003+154630440002"],
    [tt |-> "+03180+00000LMT  +03600+00000CET  +07200+03600CEST +07200+00000EET  ",
     at |-> "-157792636402-057490200003-056808720002-051217560003-050492880002-044988840003-044185680002-034715880004+037868400002+038646360003+040227120002+041799960003+043380720002+044962200003+046542960002+048159000003+049696560002+051295320003+052867440002+054423000003+056003760002+057585240003+059166000002+060738840003+062319600002+064177560004+084403440002+086010840003+087591600004+135250560002+136451520003+138265920004"],
    [tt |-> "+00540+00000PMT  +03600+00000CET  +07200+03600CEST ",
     at |-> "-185595896102-096924240003-095049360002-094194000003-089113680002-087782760003-085725720002-084455640003-084291840002-084222360003-082823040002-081250200003-079626960002-078105240003-076663440002+023120280003+024390360002+026282520003+027604440002+058112280003+059114520002+060687000003+062259480002+064151640003+065464920002+111490200003+112803840002+114333480003+116208360002+117478440003+119353320002+120683880003+122498280002"],
    [tt |-> "+05400+00000+0130+07200+00000SAST +10800+03600SAST +07200+00000CAT  +03600-03600WAT  ",
     at |-> "-210928860002-086097600003-084525480002+063797040004+076420080005+077864040004+079678080005+081009000004+082883520005+084153960004+086028480005+087359400004+089173440005+090504360004+092318400005+093649320004+095463360005+096794280004+098608320005+099939240004+101813760005+103084200004+104958720005+106289640004+108103680005+109434600004+111248640005+112579560004+114393600005+115724520004+117538560005+118869480004+120744000005+122074920004+123888960005+125219880004+127033920005+128364840004+130178880005+131509800004+133323840005+134654760004+136529280005+137799720004+139674240005+141005160004+142819200005+144150120004+145964160005+147295080004+149109120005+150440040004"],
    [tt |-> "-39600+00000NST  -36000+03600NWT  -36000+03600NPT  -39600+00000BST  -36000+03600BDT  -36000+00000AHST -36000+00000HST  -32400+03600HDT  ",
     at |-> "-088019640002-076939560003-076537440001-008687880004-002146680005-000574560004+000998280005+002570400004+004143240005+005775840004+007348680005+008920800004+010493640005+012065760004+012670920005+015210720004+016239240005+018355680004+019928520005+021561120004+023073480005+024706080004+026278920005+027851040004+029423880005+030996000004+032568840005+034140960004+035713800005+037285920004+038858760005+040491360004+042003720005+043636320006+043903440007+045208800008+046780920007+048353760008+049925880007+051498720008+053070840007+054462240008+056215800007+057607200008+059421240007+060752160008+062566200007+063897120008+065711160007+067102560008+068856120007+070247520008+072001080007+073392480008+075206520007+076537440008+078351480007+079682400008+081496440007+082887840008+084641400007+086032800008+087786360007+089177760008+090931320007+092322720008+094136760007+095467680008+097281720007+098612640008+100426680007+101818080008+103571640007+104963040008+106716600007+108108000008+109922040007+111252960008+113067000007+114397920008+116211960007+117361440008+119417400007+120506400008+122562360007+123651360008+125707320007+126856800008+128912760007+130001760008+132057720007+133146720008+135202680007+136291680008+138347640007+139436640008+141492600007+142581600008+144637560007+145787040008+147843000007+148932000008+150987960007+152076960008+154132920007+155221920008+157277880007+158366880008+160422840007+161572320008+163628280007+164717280008+166773240007+167862240008+169918200007+171007200008+173063160007+174152160008+176208120007+177297120008+179353080007+180502560008+182558520007+183647520008+185703480007+186792480008+188848440007+189937440008+191993400007+193082400008+195138360007+196287840008+198343800007+199432800008+201488760007+202577760008+204633720007+205722720008+207778680007+208867680008+210923640007+212012640008+214068600007"],
    [tt |-> "-36000+00000AST  -32400+03600AWT  -32400+03600APT  -36000+00000AHST -32400+03600AHDT -32400+00000YST  -32400+00000AKST -28800+03600AKDT ",
     at |-> "-088020000002-076939560003-076537800001-008688240004-002147040005-000574920004+000997920005+002570040004+004142880005+005775480004+007348320005+008920440004+010493280005+012065400004+012670560005+015210360004+016238880005+018355320004+019928160005+021560760004+023073120005+024705720004+026278560005+027850680004+029423520005+030995640004+032568480005+034140600004+035713440005+037285560004+038858400005+040491000004+042003360005+043635960006+043903080007+045208440008+046780560007+048353400008+049925520007+051498360008+053070480007+054461880008+056215440007+057606840008+059420880007+060751800008+062565840007+063896760008+065710800007+067102200008+068855760007+070247160008+072000720007+073392120008+075206160007+076537080008+078351120007+079682040008+081496080007+082887480008+084641040007+086032440008+087786000007+089177400008+090930960007+092322360008+094136400007+095467320008+097281360007+098612280008+100426320007+101817720008+103571280007+104962680008+106716240007+108107640008+109921680007+111252600008+113066640007+114397560008+116211600007+117361080008+119417040007+120506040008+122562000007+123651000008+125706960007+126856440008+128912400007+130001400008+132057360007+133146360008+135202320007+136291320008+138347280007+139436280008+141492240007+142581240008+144637200007+145786680008+147842640007+148931640008+150987600007+152076600008+154132560007+155221560008+157277520007+158366520008+160422480007+161571960008+163627920007+164716920008+166772880007+167861880008+169917840007+171006840008+173062800007+174151800008+176207760007+177296760008+179352720007+180502200008+182558160007+183647160008+185703120007+186792120008+188848080007+189937080008+191993040007+193082040008+195138000007+196287480008+198343440007+199432440008+201488400007+202577400008+204633360007+205722360008+207778320007+208867320008+210923280007+212012280008+214068240007"],
    [tt |-> "-15120+00000LMT  -14400+00000AST  ",
     at |-> "-182509846402"],
    [tt |-> "-14820+00000LMT  -18000+00000EST  -14400+00000AST  ",
     at |-> "-182509876802-059959800003"],
    [tt |-> "-11580+00000LMT  -10800+00000-03  -07200+03600-02  ",
     at |-> "-176721403202-120695760003-119136240002-117537480003-115982640002-063381960003-062206920002-060228360003-059183280002-057074760003-056021040002-053912520003-053135280002-019136520003-018419760002-015516360003-015006960002-012889800003-012112560002-009995400003-008958960002-006841800003-005796720002+049974840003+051123600002+053059320003+054026640002+056212920003+057119760002+059297400003+060204240002+062442360003+063470160002+081372600003+082400400002+084457080003+085605840002+087610680003+088871760002+090807480003+091956240002+093891960003+095161680002+097097400003+098246160002+100302840003+101391120002+103629240003+104536080002+135078840003+136106640002+214748364702"],
    [tt |-> "-15420+00000CMT  -14400+00000-04  -10800+03600-03  -10800+00000-03  -07200+03600-02  ",
     at |-> "-156745339202-123343200003-122298120002-120595680003-119403720002-117286560003-116250120002-114132960003-113096520002-110979360003-109942920002-107825760003-106780680002-104663520003-103627080002-101509920003-100473480002-098356320003-097319880002-095202720003-094157640002-093103200003-090088200002-089033760003-083374920002-082726560003-075227400002-073378080003-019732680002-019084320003-018419400002-016449120003-015265800002-013295520003-012112200002-010141920003-008682120002-007109280003-005476680002-003903840003-002331720002-000758880004+012814200005+013660560004+059694840005+060506640004+062442360005+063651600004+065647800005+066796560004+068792760005+069941520004+071937720005+073146960004+093891960004+095205240004+119898360005+120563280004+122438520005+123708240004+214748364704"],
    [tt |-> "-15420+00000CMT  -14400+00000-04  -10800+03600-03  -10800+00000-03  -07200+03600-02  -07200+07200-02  ",
     at |-> "-156745339202-123343200003-122298120002-120595680003-119403720002-117286560003-116250120002-114132960003-113096520002-110979360003-109942920002-107825760003-106780680002-104663520003-103627080002-101509920003-100473480002-098356320003-097319880002-095202720003-094157640002-093103200003-090088200002-089033760003-083374920002-082726560003-075227400002-073378080003-019732680002-019084320003-018419400002-016449120003-015265800002-013295520003-012112200002-010141920003-008682120002-007109280003-005476680002-003903840003-002331720002-000758880004+012814200005+013660560004+059694840005+060506640004+062442360005+063651600004+065647800005+066796560002+068793120006+069941520004+071937720005+073146960004+093891960003+095205240004+108605880002+108770400004+119898360005+120563280004+214748364704"],
    [tt |-> "-15420+00000CMT  -14400+00000-04  -10800+03600-03  -10800+00000-03  -07200+03600-02  -07200+07200-02  ",
     at |-> "-156745339202-123343200003-122298120002-120595680003-119403720002-117286560003-116250120002-114132960003-113096520002-110979360003-109942920002-107825760003-106780680002-104663520003-103627080002-101509920003-100473480002-098356320003-097319880002-095202720003-094157640002-093103200003-090088200002-089033760003-083374920002-082726560003-075227400002-073378080003-019732680002-019084320003-018419400002-016449120003-015265800002-013295520003-012112200002-010141920003-008682120002-007109280003-005476680002-003903840003-002331720002-000758880004+012814200005+013660560004+059694840005+060506640004+062442360005+063651600004+065647800005+066796560002+068793120006+069941520004+071937720005+073146960004+093891960004+095205240004+119898360005+120563280004+122438520005+123708240004+214748364704"],
    [tt |-> "-15420+00000CMT  -14400+00000-04  -10800+03600-03  -10800+00000-03  -07200+03600-02  -07200+07200-02  ",
     at |-> "-156745339202-123343200003-122298120002-120595680003-119403720002-117286560003-116250120002-114132960003-113096520002-110979360003-109942920002-107825760003-106780680002-104663520003-103627080002-101509920003-100473480002-098356320003-097319880002-095202720003-094157640002-093103200003-090088200002-089033760003-083374920002-082726560003-075227400002-073378080003-019732680002-019084320003-018419400002-016449120003-015265800002-013295520003-012112200002-010141920003-008682120002-007109280003-005476680002-003903840003-002331720002-000758880004+012814200005+013660560004+059694840005+060506640004+062442360005+063651600002+065708640003+066917880002+068672160006+069941520004+071937720005+073146960004+093891960004+095205240004+119898360005+120563280004+214748364704"],
    [tt |-> "-15420+00000CMT  -14400+00000-04  -10800+03600-03  -10800+00000-03  -07200+03600-02  ",
     at |-> "-156745339202-123343200003-122298120002-120595680003-119403720002-117286560003-116250120002-114132960003-113096520002-110979360003-109942920002-107825760003-106780680002-104663520003-103627080002-101509920003-100473480002-098356320003-097319880002-095202720003-094157640002-093103200003-090088200002-089033760003-083374920002-082726560003-075227400002-073378080003-019732680002-019084320003-018419400002-016449120003-015265800002-013295520003-012112200002-010141920003-008682120002-007109280003-005476680002-003903840003-002331720002-000758880004+012814200005+013660560004+059694840005+060506640004+062442360005+063651600004+065647800005+066779280002+067358880004+068792760005+069941520004+071937720005+073146960004+093891960003+095205240004+108605880002+108770400004+119898360005+120563280004+214748364704"],
    [tt |-> "-15420+00000CMT  -14400+00000-04  -10800+03600-03  -10800+00000-03  -07200+03600-02  -07200+07200-02  ",
     at |-> "-156745339202-123343200003-122298120002-120595680003-119403720002-117286560003-116250120002-114132960003-113096520002-110979360003-109942920002-107825760003-106780680002-104663520003-103627080002-101509920003-100473480002-098356320003-097319880002-095202720003-094157640002-093103200003-090088200002-089033760003-083374920002-082726560003-075227400002-073378080003-019732680002-019084320003-018419400002-016449120003-015265800002-013295520003-012112200002-010141920003-008682120002-007109280003-005476680002-003903840003-002331720002-000758880004+012814200005+013660560004+059694840005+060506640004+062442360005+063651600002+065596320003+066779640002+068749920003+069941880002+071938080006+073146960004+093891960003+095205240004+108528120002+109617120004+119898360005+120563280004+214748364704"],
    [tt |-> "-15420+00000CMT  -14400+00000-04  -10800+03600-03  -10800+00000-03  -07200+03600-02  ",
     at |-> "-156745339202-123343200003-122298120002-120595680003-119403720002-117286560003-116250120002-114132960003-113096520002-110979360003-109942920002-107825760003-106780680002-104663520003-103627080002-101509920003-100473480002-098356320003-097319880002-095202720003-094157640002-093103200003-090088200002-089033760003-083374920002-082726560003-075227400002-073378080003-019732680002-019084320003-018419400002-016449120003-015265800002-013295520003-012112200002-010141920003-008682120002-007109280003-005476680002-003903840003-002331720002-000758880004+012814200005+013660560004+059694840005+060506640004+062442360005+063651600004+065647800005+066796560004+068792760005+069941520004+071937720005+073146960004+093891960003+095205240004+108605880002+108770400004+119898360005+120563280004+214748364704"],
    [tt |-> "-15420+00000CMT  -14400+00000-04  -10800+03600-03  -10800+00000-03  -07200+03600-02  -07200+07200-02  ",
     at |-> "-156745339202-123343200003-122298120002-120595680003-119403720002-117286560003-116250120002-114132960003-113096520002-110979360003-109942920002-107825760003-106780680002-104663520003-103627080002-101509920003-100473480002-098356320003-097319880002-095202720003-094157640002-093103200003-090088200002-089033760003-083374920002-082726560003-075227400002-073378080003-019732680002-019084320003-018419400002-016449120003-015265800002-013295520003-012112200002-010141920003-008682120002-007109280003-005476680002-003903840003-002331720002-000758880004+012814200005+013660560004+059694840005+060506640004+062442360005+063651600004+065647800005+066796560002+068793120006+069941520004+071937720005+073146960004+093891960004+095205240004+119898360005+120563280004+214748364704"],
    [tt |-> "-15420+00000CMT  -14400+00000-04  -10800+03600-03  -10800+00000-03  -07200+03600-02  ",
     at |-> "-156745339202-123343200003-122298120002-120595680003-119403720002-117286560003-116250120002-114132960003-113096520002-110979360003-109942920002-107825760003-106780680002-104663520003-103627080002-101509920003-100473480002-098356320003-097319880002-095202720003-094157640002-093103200003-090088200002-089033760003-083374920002-082726560003-075227400002-073378080003-019732680002-019084320003-018419400002-016449120003-015265800002-013295520003-012112200002-010141920003-008682120002-007109280003-005476680002-003903840003-002331720002-000758880004+012814200005+013660560004+059694840005+060506640004+062442360005+063651600004+065647800005+066779280002+067358880004+068792760005+069941520004+071937720005+073146960004+093891960003+095205240004+108597240002+109072800004+119898360005+120563280004+214748364704"],
    [tt |-> "-15420+00000CMT  -14400+00000-04  -10800+03600-03  -10800+00000-03  -07200+03600-02  ",
     at |-> "-156745339202-123343200003-122298120002-120595680003-119403720002-117286560003-116250120002-114132960003-113096520002-110979360003-109942920002-107825760003-106780680002-104663520003-103627080002-101509920003-100473480002-098356320003-097319880002-095202720003-094157640002-093103200003-090088200002-089033760003-083374920002-082726560003-075227400002-073378080003-019732680002-019084320003-018419400002-016449120003-015265800002-013295520003-012112200002-010141920003-008682120002-007109280003-005476680002-003903840003-002331720002-000758880004+012814200005+013660560004+059694840005+060506640004+062442360005+063738000002+065596320003+066779640002+067574880004+093891960003+095205240004+108597240002+109072800004+119898360005+120088080003+120503160002+122378400003+123648120002+125523360004+214748364704"],
    [tt |-> "-15420+00000CMT  -14400+00000-04  -10800+03600-03  -10800+00000-03  -07200+03600-02  -07200+07200-02  ",
     at |-> "-156745339202-123343200003-122298120002-120595680003-119403720002-117286560003-116250120002-114132960003-113096520002-110979360003-109942920002-107825760003-106780680002-104663520003-103627080002-101509920003-100473480002-098356320003-097319880002-095202720003-094157640002-093103200003-090088200002-089033760003-083374920002-082726560003-075227400002-073378080003-019732680002-019084320003-018419400002-016449120003-015265800002-013295520003-012112200002-010141920003-008682120002-007109280003-005476680002-003903840003-002331720002-000758880004+012814200005+013660560004+059694840005+060506640004+062442360005+063651600004+065647800005+066796560002+068793120006+069941520004+071937720005+073146960004+093891960003+095205240004+108605880002+108709920004+119898360005+120563280004+122438520005+123708240004+214748364704"],
    [tt |-> "-15420+00000CMT  -14400+00000-04  -10800+03600-03  -10800+00000-03  -07200+03600-02  ",
     at |-> "-156745339202-123343200003-122298120002-120595680003-119403720002-117286560003-116250120002-114132960003-113096520002-110979360003-109942920002-107825760003-106780680002-104663520003-103627080002-101509920003-100473480002-098356320003-097319880002-095202720003-094157640002-093103200003-090088200002-089033760003-083374920002-082726560003-075227400002-073378080003-019732680002-019084320003-018419400002-016449120003-015265800002-013295520003-012112200002-010141920003-008682120002-007109280003-005476680002-003903840003-002331720002-000758880004+012814200005+013660560004+059694840005+060506640004+062442360005+063651600004+065647800005+066796560004+068792760005+069941520004+071937720005+073146960004+093891960003+095205240004+108588600002+108770400004+119898360005+120563280004+214748364704"],
    [tt |-> "-16800+00000LMT  -16200+00000-0430-14400+00000AST  ",
     at |-> "-182673837602-015775020003"],
    [tt |-> "-13860+00000AMT  -14400+00000-04  -10800+00000-03  -10800+03600-03  ",
     at |-> "-120638936002+008676000003+013401720002+018136800004+019449720002+021299040004+022603320002+024452640004+025756920002+027606240004+029178360002+030759840004+032340600002+033922080004+035494200002+037075680004+038647800002+040229280004+041801400002+043382880004+044963640002+046545120004+048117240002+049698720004+051270840002+052852320004+054424440002+056005920004+057586680002+059168160004+060740280002+062503200004+063893880002+065475360004+067047480002+068672160004+069941880002+071825760004+073354680002+074944800004+076231800002+078098400004+079376760002+081252000004+082564920002+084457440004+085666680002+087602400004+088872120002+090747360004+092077560002+093892320004+095222520002+097037280004+098367480002+100242720004+101814840002+103085280004+104959800002+106290720004+108104760002+109798560004+111068280002+112943520004+114213240002+116088480004+117358200002+119293920004+120503160002+122438880004+123648120002+125583840004+127095480002+128607840004+130240440002+131752800004+133385400002+134958240004+136409400002+138103200004+139554360002+141248160004+142699320002+144393120004+145904760002+147538080004+149049720002+150683040004+152194680002+153888480004+155339640002+157033440004+158484600002+160178400004+161690040002+163323360004+164835000002+166468320004+167979960002+169613280004+171124920002+172818720004+172896120003+214748364703"],
    [tt |-> "-21600+00000CST  -18000+03600CDT  -18000+03600CWT  -18000+03600CPT  -18000+00000EST  ",
     at |-> "-163206720002-161513640001-092324880002-088021440003-076939560004-076539240005"],
    [tt |-> "-09240+00000LMT  -10800+00000-03  -07200+03600-02  ",
     at |-> "-176721635602-120695760003-119136240002-117537480003-115982640002-063381960003-062206920002-060228360003-059183280002-057074760003-056021040002-053912520003-053135280002-019136520003-018419760002-015516360003-015006960002-012889800003-012112560002-009995400003-008958960002-006841800003-005796720002+049974840003+051123600002+053059320003+054026640002+056212920003+057119760002+059297400003+060204240002+062442360003+063470160002+065647800003+066675600002+068792760003+069760080002+071998200003+072844560002+075082680003+076170960002+078227640003+079315920002+081372600003+082400400002+084457080003+085605840002+087610680003+088871760002+090807480003+091956240002+093891960003+095161680002+097097400003+098246160002+100302840003+101391120002+103629240003+104536080002+131873400003+133022160002+214748364702"],
    [tt |-> "-25260+00000LMT  -25200+00000MST  -21600+00000CST  -21600+03600MDT  -18000+07200CDT  -18000+03600CDT  ",
     at |-> "-151473960002-134314920003-123480720002-122046120004-120715920002-119134440003-087382800002+082886760004+084640320002+086031720004+087785280002+089176680004+090930240002+092321640004+094135680002+095466600004+097280640002+098913960004+100183680002+101817000004+103570560002+104961960004+106715520002+108106920004+109920960002+111251880004+113065920002+114396840004+116210880002+117541800004+119355840002+120747240004+122500800002+123892200004+125645760002+127037160005+128850840003+130181760006+131995800003+133326720006+135140760003+136532160006+138285720003+139677120006+141430680003+142822080006+144575640003+145967040006+147781080003+149112000006+150926040003+152256960006+154071000003+155462400006+157215960003+158607360006+160360920003+161752320006+163566360003+164897280006+166711320003"],
    [tt |-> "-14280+00000LMT  -14400+00000AST  -10800+03600ADT  -12600+01800-0330",
     at |-> "-184125609102-087426360003-086268240002-084160440003-083071440002-081188280004-079866000002+023494320003+024461640002+026155440003+027606600002+029300400003+030751560002+032505840003+033870600002"],
    [tt |-> "-11640+00000LMT  -10800+00000-03  -07200+03600-02  ",
     at |-> "-176721396402-120695760003-119136240002-117537480003-115982640002-063381960003-062206920002-060228360003-059183280002-057074760003-056021040002-053912520003-053135280002-019136520003-018419760002-015516360003-015006960002-012889800003-012112560002-009995400003-008958960002-006841800003-005796720002+049974840003+051123600002+053059320003+054026640002+056212920003+057119760002+214748364702"],
    [tt |-> "-21180+00000LMT  -21600+00000CST  -19800+01800-0530-18000+03600CWT  -18000+03600CPT  -18000+03600CDT  ",
     at |-> "-182250043202-161695440003-160606980002-158550480003-157401540002-155405520003-154256580002-152260560003-151111620002-149055120003-147966660002-145910160003-144821700002-142765200003-141616260002-139620240003-138471300002-136475280003-135326340002-133330320003-132181380002-130124880003-129036420002-126979920003-125891460002-123834960003-122686020002-120690000003-119541060002-117545040003-116396100002-114339600003-113251140002-111194640003-110106180002-108049680003-106961220002-104904720003-103755780002-101759760003-100610820002-098614800003-097465860002-095409360003-094320900002-092264400003-091175940002-089119440003-087970500002-086821200004-076939560005-075874680002-070189200003-069040260002-067044240003-065895300002-063899280003-062750340002-060693840003-059605380002-057548880003-056460420002-054403920003-053254980002-051258960003-050110020002-048114000003-046965060002-044969040003-043820100002-041763600003-040675140002-038618640003-037530180002-035473680003-034324740002-032328720003-031179780002-029183760003-028034820002-025978320003-024889860002-022833360003-021744900002-019688400003-018599940002-016543440003-015394500002-013398480003-012249540002-010253520003-009104580002-007048080003-005959620002+012391920006+012961800002+040903920006+041387400002"],
    [tt |-> "-14400+00000AST  -10800+03600ADT  -10800+03600AWT  -10800+03600APT  ",
     at |-> "-163207440002-161514360001-088022160003-076939560004-076539960001"],
    [tt |-> "-14580+00000LMT  -14400+00000-04  -10800+03600-03  ",
     at |-> "-176721104002-120695400003-119135880002-117537120003-115982280002-063381600003-062206560002-060228000003-059182920002-057074400003-056020680002-053912160003-053134920002-019136160003-018419400002-015516000003-015006600002-012889440003-012112200002-009995040003-008958600002-006841440003-005796360002+049975200003+051123960002+053059680003+054027000002+056213280003+057120120002+093892320003+095162040002+097097760003+097157880002+214748364702"],
    [tt |-> "-17760+00000BMT  -18000+00000-05  -14400+03600-04  ",
     at |-> "-173904142402+070486920003+072905760002+214748364702"],
    [tt |-> "-28800+00000PST  -25200+03600PDT  -25200+00000MST  -21600+03600MWT  -21600+03600MPT  -21600+03600MDT  ",
     at |-> "-163326960002-161512920001-160182000002-158367960001-147178800003-088021080004-076939560005-076538880003-008438040006-006865920003-005293080006-003720960003-002148120006-000576000003+000996840006+002568960003+004141800006+005774400003+007347240006+008919360003+010492200006+012064320003+012911400006+015209280003+016237800006+018354240003+019927080006+021559680003+023072040006+024704640003+026277480006+027849600003+029422440006+030994560003+032567400006+034139520003+035712360006+037284480003+038857320006+040489920003+042002280006+043634880003+045207720006+046779840003+048352680006+049924800003+051497640006+053069760003+054461160006+056214720003+057606120006+059420160003+060751080006+062565120003+063896040006+065710080003+067101480006+068855040003+070246440006+072000000003+073391400006+075205440003+076536360006+078350400003+079681320006+081495360003+082886760006+084640320003+086031720006+087785280003+089176680006+090930240003+092321640006+094135680003+095466600006+097280640003+098611560006+100425600003+101817000006+103570560003+104961960006+106715520003+108106920006+109920960003+111251880006+113065920003+114396840006+116210880003+117360360006+119416320003+120505320006+122561280003+123650280006+125706240003+126855720006+128911680003+130000680006+132056640003+133145640006+135201600003+136290600006+138346560003+139435560006+141491520003+142580520006+144636480003+145785960006+147841920003+148930920006+150986880003+152075880006+154131840003+155220840006+157276800003+158365800006+160421760003+161571240006+163627200003+164716200006+166772160003+167861160006+169917120003+171006120006+173062080003+174151080006+176207040003+177296040006+179352000003+180501480006+182557440003+183646440006+185702400003+186791400006+188847360003+189936360006+191992320003+193081320006+195137280003+196286760006+198342720003+199431720006+201487680003+202576680006+204632640003+205721640006+207777600003+208866600006+210922560003+212011560006+214067520003"],
    [tt |-> "+00000+00000-00  -25200+00000MST  -21600+03600MWT  -21600+03600MPT  -21600+03600MDT  -21600+00000CST  -18000+03600CDT  -18000+00000EST  ",
     at |-> "-157792320002-088021080003-076939560004-076538880002+007347240005+008919360002+010492200005+012064320002+013637160005+015209280002+016782120005+018354240002+019927080005+021559680002+023072040005+024704640002+026277480005+027849600002+029422440005+030994560002+032567400005+034139520002+035712360005+037284480002+038857320005+040489920002+042002280005+043634880002+045207720005+046779840002+048352680005+049924800002+051497640005+053069760002+054461160005+056214720002+057606120005+059420160002+060751080005+062565120002+063896040005+065710080002+067101480005+068855040002+070246440005+072000000002+073391400005+075205440002+076536360005+078350400002+079681320005+081495360002+082886760005+084640320002+086031720005+087785280002+089176680005+090930240002+092321640005+094135680006+095466240007+097280280008+097340040006+098611560005+100425600002+101817000005+103570560002+104961960005+106715520002+108106920005+109920960002+111251880005+113065920002+114396840005+116210880002+117360360005+119416320002+120505320005+122561280002+123650280005+125706240002+126855720005+128911680002+130000680005+132056640002+133145640005+135201600002+136290600005+138346560002+139435560005+141491520002+142580520005+144636480002+145785960005+147841920002+148930920005+150986880002+152075880005+154131840002+155220840005+157276800002+158365800005+160421760002+161571240005+163627200002+164716200005+166772160002+167861160005+169917120002+171006120005+173062080002+174151080005+176207040002+177296040005+179352000002+180501480005+182557440002+183646440005+185702400002+186791400005+188847360002+189936360005+191992320002+193081320005+195137280002+196286760005+198342720002+199431720005+201487680002+202576680005+204632640002+205721640005+207777600002+208866600005+210922560002+212011560005+214067520002"],
    [tt |-> "-13080+00000LMT  -14400+00000-04  -10800+03600-03  ",
     at |-> "-176721249202-120695400003-119135880002-117537120003-115982280002-063381600003-062206560002-060228000003-059182920002-057074400003-056020680002-053912160003-053134920002-019136160003-018419400002-015516000003-015006600002-012889440003-012112200002-009995040003-008958600002-006841440003-005796360002+049975200003+051123960002+053059680003+054027000002+056213280003+057120120002+059297760003+060204600002+062442720003+063470520002+065648160003+066675960002+068793120003+069760440002+071998560003+072844920002+075083040003+076171320002+078228000003+079316280002+081372960003+082400760002+084457440003+085606200002+087611040003+088872120002+090807840003+091956600002+093892320003+095162040002+097097760003+098246520002+100303200003+101391480002+103629600003+104536440002+106653600003+107681400002+109936800003+110886840002+112943520003+114031800002+116269920003+117237240002+119233440003+120321720002+122438880003+123466680002+125583840003+126672120002+128728800003+129817080002+131873760003+133022520002+135079200003+136107000002+138224160003+139251960002+141369120003+142457400002+144514080003+145602360002+147659040003+148747320002+150804000003+151892280002+154130400003+155037240002+214748364702"],
    [tt |-> "-20820+00000LMT  -21600+00000CST  -18000+00000EST  -18000+03600CDT  -14400+03600EDT  ",
     at |-> "-151474320002+037820160003+041050440002+082886400004+084639960002+086031360004+087784920003+089175960005+090203760004+090929880002+092321280004+094135320002+095466240004+097280280002+098913600004+100183320002+101816640004+103570200002+104961600004+106715160002+108106560004+109920600002+111251520004+113065560002+114396480004+116210520002+117541440004+119355480002+120746880004+122500440002+123891840004+125645400002+127036800004+128850840002+130181760004+131995800002+133326720004+135140760002+136532160004+138285720002+139677120004+141430680002+142277760003"],
    [tt |-> "-16080+00000CMT  -16200+00000-0430-14400+00000-04  ",
     at |-> "-182673914002-015775020003+119718360002+146208600003+214748364703"],
    [tt |-> "-12540+00000LMT  -14400+00000-04  -10800+00000-03  ",
     at |-> "-184626904002-007109280003+214748364703"],
    [tt |-> "-18420+00000KMT  -18000+00000EST  ",
     at |-> "-182768717002"],
    [tt |-> "-21600+00000CST  -18000+03600CDT  -18000+00000EST  -18000+03600CWT  -18000+03600CPT  ",
     at |-> "-163327680002-161513640001-160182720002-158368680001-156372480002-155163240001-153892800002-152018280001-150445440002-149175720001-147300480002-145970280001-144155520002-142825320001-141010560002-139680360001-137865600002-136535400001-134720640002-133390440001-131515200002-130185000001-128370240002-127040040001-125225280002-123895080001-122080320002-120750120001-118935360002-117605160001-115729920002-114460200001-112584960002-111254760001-109440000002-108109800001-106778880003-104541480001-103150080002-101819880001-100005120002-098674920001-096799680002-095529960001-093654720002-092324520001-090509760002-089179560001-088021440004-076939560005-076539240001-074724480002-073394280001-071579520002-070249320001-068434560002-067104360001-065289600002-063959400001-062084160002-060814440001-058939200002-057609000001-055794240002-054464040001-052649280002-051319080001-049504320002-048174120001-046359360002-044726760001-043153920002-041581800001-040008960002-038436840001-036864000002-035291880001-033719040002-032146920001-030574080002-028941480001-027368640002-025796520001-024223680002-022651560001-021078720002-019506600001-017933760002-016361640001-014788800002-013156200001-011643840002-010011240001-008438400002-006866280001-005293440002-003721320001-002148480002-000576360001+000996480002+002568600001+004141440002+005774040001+007346880002+008919000001+010491840002+012063960001+012669120002+015208920001+016237440002+018353880001+019926720002+021559320001+023071680002+024704280001+026277120002+027849240001+029422080002+030994200001+032567040002+034139160001+035712000002+037284120001+038856960002+040489560001+042001920002+043634520001+045207360002+046779480001+048352320002+049924440001+051497280002+053069400001+054460800002+056214360001+057605760002+059419800001+060750720002+062564760001+063895680002+065709720001+067101120002+068854680001+070246080002+071999640001+073391040002+075205080001+076536000002+078350040001+079680960002+081495000001+082886400002+084639960001+086031360002+087784920001+089176320002+090929880001+092321280002+094135320001+095466240002+097280280001+098611200002+100425240001+101816640002+103570200001+104961600002+106715160001+108106560002+109920600001+111251520002+113065560001+114396480002+116210520001+117360000002+119415960001+120504960002+122560920001+123649920002+125705880001+126855360002+128911320001+130000320002+132056280001+133145280002+135201240001+136290240002+138346200001+139435200002+141491160001+142580160002+144636120001+145785600002+147841560001+148930560002+150986520001+152075520002+154131480001+155220480002+157276440001+158365440002+160421400001+161570880002+163626840001+164715840002+166771800001+167860800002+169916760001+171005760002+173061720001+174150720002+176206680001+177295680002+179351640001+180501120002+182557080001+183646080002+185702040001+186791040002+188847000001+189936000002+191991960001+193080960002+195136920001+196286400002+198342360001+199431360002+201487320001+202576320002+204632280001+205721280002+207777240001+208866240002+210922200001+212011200002+214067160001"],
    [tt |-> "-25440+00000LMT  -25200+00000MST  -21600+00000CST  -21600+03600MDT  -18000+03600CDT  ",
     at |-> "-151473960002-134314920003-123480720002-122046120004-120715920002-119134440003+082886400005+084639960003+086031360005+087784920003+089176680004+090930240002+092321640004+094135680002+095466600004+097280640002+098913960004+100183680002+101817000004+103570560002+104961960004+106715520002+108106920004+109920960002+111251880004+113065920002+114396840004+116210880002+117541800004+119355840002+120747240004+122500800002+123892200004+125645760002+127037160004+128851200002+130182120004+131996160002+133327080004+135141120002+136532520004+138286080002+139677480004+141431040002+142822440004+144576000002+145967400004+147781440002+149112360004+150926400002+152257320004+154071360002+155462760004+157216320002+158607720004+160361280002+161752680004+163566720002+164897640004+166711680003"],
    [tt |-> "-25560+00000LMT  -25200+00000MST  -21600+00000CST  -21600+03600MDT  -18000+03600CDT  ",
     at |-> "-151473960002-134314920003-123480720002-122046120004-120715920002-119134440003+082886400005+084639960003+086031360005+087784920003+089176680004+090930240002+092321640004+094135680002+095466600004+097280640002+098913960004+100183680002+101817000004+103570560002+104961960004+106715520002+108106920004+109920960002+111251880004+113065920002+114396840004+116210880002+117541800004+119355840002+120747240004+122500800002+123892200004+125645760002+126855720004+128911680002+130000680004+132056640002+133145640004+135201600002+136290600004+138346560002+139435560004+141491520002+142580520004+144636480002+145785960004+147841920002+148930920004+150986880002+152075880004+154131840002+155220840004+157276800002+158365800004+160421760002+161571240004+163627200002+164716200004+166711680003+166978800002+167861160004+169917120002+171006120004+173062080002+174151080004+176207040002+177296040004+179352000002+180501480004+182557440002+183646440004+185702400002+186791400004+188847360002+189936360004+191992320002+193081320004+195137280002+196286760004+198342720002+199431720004+201487680002+202576680004+204632640002+205721640004+207777600002+208866600004+210922560002+212011560004+214067520002"],
    [tt |-> "-19200+00000CMT  -18000+00000EST  ",
     at |-> "-194691842402"],
    [tt |-> "-20160+00000SJMT -21600+00000CST  -18000+03600CDT  ",
     at |-> "-154507102702+028877040003+029723400002+032022000003+032868360002+066426480003+067834440002+069571440003+070063560002"],
    [tt |-> "-16980+00000SMT  -18000+00000-05  -14400+00000-04  -14400+02580-04  -14400+03600-04  -10800+03600-03  -10800+00000-03  ",
     at |-> "-189266143502-168841080001-161920543503-159380640001-133598623504-131758560002-130436280005-128604960002-127282680005-125451360002-124129080005-122297760002-120975480005-119135520002-117813240003-087055200002-086527800003-073663200005-071805600002-071364960003-003661920006-002392200003-000335520006+000752760003+002446560006+003776760003+005591520006+006921720003+008796960006+010066680003+011820960006+013211640003+015086880006+016356600003+018231840006+019562040003+021376800006+022707000003+024521760006+025851960003+027727200006+028996920003+030872160006+032141880003+034017120006+035347320003+037162080006+038492280003+040307040006+041637240003+043452000006+044782200003+046657440006+047927160003+049802400006+051072120003+052947360006+054519480003+056092320006+057422520003+059237280006+060567480003+062442720006+063712440003+065345760006+066857400003+068732640006+070062840003+071877600006+073207800003+075022560006+076352760003+078167520006+079497720003+081372960006+082642680003+084517920006+085969080003+087662880006+088993080003+090686880006+092319480003+093952800006+095283000003+097158240006+098427960003+100303200006+101572920003+103448160006+104717880003+106593120006+107923320003+109738080006+111068280003+112883040006+114213240003+116088480006+117358200003+119233440006+120684600003+122378400006+123708600003+125523360006+127035000003+128668320006+130482360003+131389920006+133566840003+134655840006+136711800003+137861280006+139856760003+141006240006+146328120003+147114720006+149473080003+150259680006+152618040003+153404640006+155460600003+156791520006+158605560003+159936480006+161750520003+163081440006+164895480003+166286880006+168040440003+169371360006+171245880003+172576800006+174243960007+214748364707"],
    [tt |-> "-25200+00000MST  -28800+00000PST  ",
     at |-> "-168045480002-162783360001"],
    [tt |-> "-13440+00000LMT  -14400+00000-04  -10800+03600-03  ",
     at |-> "-176721214002-120695400003-119135880002-117537120003-115982280002-063381600003-062206560002-060228000003-059182920002-057074400003-056020680002-053912160003-053134920002-019136160003-018419400002-015516000003-015006600002-012889440003-012112200002-009995040003-008958600002-006841440003-005796360002+049975200003+051123960002+053059680003+054027000002+056213280003+057120120002+059297760003+060204600002+062442720003+063470520002+065648160003+066675960002+068793120003+069760440002+071998560003+072844920002+075083040003+076171320002+078228000003+079316280002+081372960003+082400760002+084457440003+085606200002+087611040003+088872120002+090807840003+091956600002+093892320003+095162040002+097097760003+098246520002+100303200003+101391480002+103629600003+104536440002+109936800003+110886840002+112943520003+114031800002+116269920003+117237240002+119233440003+120321720002+122438880003+123466680002+125583840003+126672120002+128728800003+129817080002+131873760003+133022520002+135079200003+136107000002+138224160003+139251960002+141369120003+142457400002+144514080003+145602360002+147659040003+148747320002+150804000003+151892280002+154130400003+155037240002+214748364702"],
    [tt |-> "-16560+00000LMT  -16200+00000-0430-14400+00000AST  ",
     at |-> "-182673865302-015775020003"],
    [tt |-> "-04500+00000LMT  -10800+00000-03  -07200+03600-02  +00000+00000GMT  ",
     at |-> "-168609152002+032384520003+033895080002+035467560003+037040040002+038612520003+040185000002+041757480003+043329960002+044902440003+046535400002+048107880003+049680360002+051252840003+052825320002+054397800003+055970280002+057542760003+059115240002+060687720003+062260200002+063832680003+065465640002+067038120003+068610600002+070183080003+071755560002+073328040003+074900520002+076473000003+078045480002+079617960003+081190440002+082046520004"],
    [tt |-> "-32400+00000YST  -28800+03600YDT  -28800+03600YWT  -28800+03600YPT  -25200+07200YDDT -28800+00000PST  -25200+03600PDT  -25200+00000MST  ",
     at |-> "-163205640002-161512560001-159697800002-158316480001-088020360003-076939560004-076538160001-014788440005-013155480001+012064680006+032567760007+034139880006+035712720007+037284840006+038857680007+040490280006+042002640007+043635240006+045208080007+046780200006+048353040007+049925160006+051498000007+053070120006+054461520007+056215080006+057606480007+059420520006+060751440007+062565480006+063896400007+065710440006+067101840007+068855400006+070246800007+072000360006+073391760007+075205800006+076536720007+078350760006+079681680007+081495720006+082887120007+084640680006+086032080007+087785640006+089177040007+090930600006+092322000007+094136040006+095466960007+097281000006+098611920007+100425960006+101817360007+103570920006+104962320007+106715880006+108107280007+109921320006+111252240007+113066280006+114397200007+116211240006+117360720007+119416680006+120505680007+122561640006+123650640007+125706600006+126856080007+128912040006+130001040007+132057000006+133146000007+135201960006+136290960007+138346920006+139435920007+141491880006+142580880007+144636840006+145786320007+147842280006+148931280007+150987240006+152076240007+154132200006+155221200007+157277160006+158366160007+160421400008"],
    [tt |-> "-28800+00000PST  -25200+03600PDT  -25200+03600PWT  -25200+03600PPT  -25200+00000MST  ",
     at |-> "-163206000002-161512920001-088020720003-076939560004-076538520001-071578800002-070248600001-068433840002-067103640001-065288880002-063958680001-062083440002-060813720001-058938480002-057608280001-055793520002-054463320001-052648560002-051318360001-049503600002-048173400001-046358640002-045028440001-043153200002-041823000001-040008240002-038678040001-036863280002-035533080001-033718320002-032388120001-030573360002-029243160001-027367920002-026098200001-024222960002-022650840001-021078000002-019505880001-017933040002-016360920001-014788080002-013155480001-011643120002-010010520001-008437680002-006865560001-005292720002-003720600001-002147760002-000575640001+000997200002+002569320001+004142160002+005774760001+007347600002+008401320005"],
    [tt |-> "-25200+00000MST  -21600+03600MDT  -21600+03600MWT  -21600+03600MPT  ",
     at |-> "-163327320002-161513280001-160182360002-158368320001-157037400002-155162880001-153892440002-153408960001-088021080003-076939560004-076538880001-014788440002-013155840001-011643480002-010010880001-008438040002-006865920001-005293080002-003720960001-002148120002-000576000001+000996840002+002568960001+004141800002+005774400001+007347240002+008919360001+010492200002+012064320001+012669480002+015209280001+016237800002+018354240001+019927080002+021559680001+023072040002+024704640001+026277480002+027849600001+029422440002+030994560001+032567400002+034139520001+035712360002+037284480001+038857320002+040489920001+042002280002+043634880001+045207720002+046779840001+048352680002+049924800001+051497640002+053069760001+054461160002+056214720001+057606120002+059420160001+060751080002+062565120001+063896040002+065710080001+067101480002+068855040001+070246440002+072000000001+073391400002+075205440001+076536360002+078350400001+079681320002+081495360001+082886760002+084640320001+086031720002+087785280001+089176680002+090930240001+092321640002+094135680001+095466600002+097280640001+098611560002+100425600001+101817000002+103570560001+104961960002+106715520001+108106920002+109920960001+111251880002+113065920001+114396840002+116210880001+117360360002+119416320001+120505320002+122561280001+123650280002+125706240001+126855720002+128911680001+130000680002+132056640001+133145640002+135201600001+136290600002+138346560001+139435560002+141491520001+142580520002+144636480001+145785960002+147841920001+148930920002+150986880001+152075880002+154131840001+155220840002+157276800001+158365800002+160421760001+161571240002+163627200001+164716200002+166772160001+167861160002+169917120001+171006120002+173062080001+174151080002+176207040001+177296040002+179352000001+180501480002+182557440001+183646440002+185702400001+186791400002+188847360001+189936360002+191992320001+193081320002+195137280001+196286760002+198342720001+199431720002+201487680001+202576680002+204632640001+205721640002+207777600001+208866600002+210922560001+212011560002+214067520001"],
    [tt |-> "-19920+00000LMT  -21600+00000CST  -18000+00000EST  -14400+03600EWT  -14400+03600EPT  -14400+03600EDT  ",
     at |-> "-205120246902-172408320003-088021800004-076939560005-076539600003-068434920006-067104720003-008050674006-006866640003-005293800006-003721680003+010491480006+012063600003+012668760006+015208560003+016781400006+018353520003+019926360006+021558960003+023071320006+024703920003+026276760006+027848880003+029421720006+030993840003+032566680006+034138800003+035711640006+037283760003+038856600006+040489200003+042001560006+043634160003+045207000006+046779120003+048351960006+049924080003+051496920006+053069040003+054460440006+056214000003+057605400006+059419440003+060750360006+062564400003+063895320006+065709360003+067100760006+068854320003+070245720006+071999280003+073390680006+075204720003+076535640006+078349680003+079680600006+081494640003+082886040006+084639600003+086031000006+087784560003+089175960006+090929520003+092320920006+094134960003+095465880006+097279920003+098610840006+100424880003+101816280006+103569840003+104961240006+106714800003+108106200006+109920240003+111251160006+113065200003+114396120006+116210160003+117359640006+119415600003+120504600006+122560560003+123649560006+125705520003+126855000006+128910960003+129999960006+132055920003+133144920006+135200880003+136289880006+138345840003+139434840006+141490800003+142579800006+144635760003+145785240006+147841200003+148930200006+150986160003+152075160006+154131120003+155220120006+157276080003+158365080006+160421040003+161570520006+163626480003+164715480006+166771440003+167860440006+169916400003+171005400006+173061360003+174150360006+176206320003+177295320006+179351280003+180500760006+182556720003+183645720006+185701680003+186790680006+188846640003+189935640006+191991600003+193080600006+195136560003+196286040006+198342000003+199431000006+201486960003+202575960006+204631920003+205720920006+207776880003+208865880006+210921840003+212010840006+214066800003"],
    [tt |-> "-14760+00000LMT  -14400+00000AST  ",
     at |-> "-184626680402"],
    [tt |-> "-27240+00000LMT  -25200+00000MST  -21600+03600MDT  -21600+03600MWT  -21600+03600MPT  ",
     at |-> "-199866396802-163206360003-161513280002-160061400003-159681600002-156795480003-155162880002-153650520003-152320320002-150445080003-149175360002-147300120003-145969920002-088021080004-076939560005-076538880002-071579160003-070248960002+007347240003+008919360002+010492200003+012064320002+013637160003+015209280002+016782120003+018354240002+019927080003+021559680002+023072040003+024704640002+026277480003+027849600002+029422440003+030994560002+032567400003+034139520002+035712360003+037284480002+038857320003+040489920002+042002280003+043634880002+045207720003+046779840002+048352680003+049924800002+051497640003+053069760002+054461160003+056214720002+057606120003+059420160002+060751080003+062565120002+063896040003+065710080002+067101480003+068855040002+070246440003+072000000002+073391400003+075205440002+076536360003+078350400002+079681320003+081495360002+082886760003+084640320002+086031720003+087785280002+089176680003+090930240002+092321640003+094135680002+095466600003+097280640002+098611560003+100425600002+101817000003+103570560002+104961960003+106715520002+108106920003+109920960002+111251880003+113065920002+114396840003+116210880002+117360360003+119416320002+120505320003+122561280002+123650280003+125706240002+126855720003+128911680002+130000680003+132056640002+133145640003+135201600002+136290600003+138346560002+139435560003+141491520002+142580520003+144636480002+145785960003+147841920002+148930920003+150986880002+152075880003+154131840002+155220840003+157276800002+158365800003+160421760002+161571240003+163627200002+164716200003+166772160002+167861160003+169917120002+171006120003+173062080002+174151080003+176207040002+177296040003+179352000002+180501480003+182557440002+183646440003+185702400002+186791400003+188847360002+189936360003+191992320002+193081320003+195137280002+196286760003+198342720002+199431720003+201487680002+202576680003+204632640002+205721640003+207777600002+208866600003+210922560002+212011560003+214067520002"],
    [tt |-> "-16740+00000LMT  -18000+00000-05  -14400+03600-04  -14400+00000-04  ",
     at |-> "-176720883202-120695040003-119135520002-117536760003-115981920002-063381240003-062206200002-060227640003-059182560002-057074040003-056020320002-053911800003-053134560002-019135800003-018419040002-015515640003-015006240002-012889080003-012111840002-009994680003-008958240002-006841080003-005796000002+049975560003+051124320002+053060040003+054027360002+056213640003+057120480002+075083400003+076171680002+121428360004+138405600002+214748364702"],
    [tt |-> "-21420+00000LMT  -21600+00000CST  -18000+03600CDT  ",
     at |-> "-154627939202+054702000003+055971720002+057846960003+059116680002"],
    [tt |-> "-28080+00000LMT  -25200+00000MST  -28800+00000PST  -25200+03600PDT  -25200+03600PWT  -25200+03600PPT  ",
     at |-> "-151473960002-145166760003-134314560002-123480360003-122296320004-120724200003-087382080005-076939560006-076141800003-068607360004-066153960003-062075520004-060814440003-058938480004-057608280003-055793520004-054463320003-049503960004-048173400003-046359000004-045028440003-043153560004-041823000003-040008600004-038678040003-036863640004-035533080003-033718680004-032388120003-030573720004-029243160003+019927440004+021560040003+023072400004+024705000003+026277840004+027849960003+029422800004+030994920003+032567760004+034139880003+035712720004+037284840003+038857680004+040490280003+042002640004+043635240003+045208080004+046780200003+048353040004+049925160003+051498000004+053070120003+054461520004+056215080003+057606480004+059420520003+060751440004+062565480003+063896400004+065710440003+067101840004+068855400003+070246800004+072000360003+073391760004+075205800003+076536720004+078350760003+079681680004+081495720003+082887120004+084640680003+086032080004+087785640003+089177040004+090930600003+092322000004+094136040003+095466960004+097281000003+098611920004+100425960003+101817360004+103570920003+104962320004+106715880003+108107280004+109921320003+111252240004+113066280003+114397200004+116211240003+117542160004+119356200003+120747600004+122501160003+123892560004+125646120003+126856080004+128912040003+130001040004+132057000003+133146000004+135201960003+136290960004+138346920003+139435920004+141491880003+142580880004+144636840003+145786320004+147842280003+148931280004+150987240003+152076240004+154132200003+155221200004+157277160003+158366160004+160422120003+161571600004+163627560003+164716560004+166772520003+167861520004+169917480003+171006480004+173062440003+174151440004+176207400003+177296400004+179352360003+180501840004+182557800003+183646800004+185702760003+186791760004+188847720003+189936720004+191992680003+193081680004+195137640003+196287120004+198343080003+199432080004+201488040003+202577040004+204633000003+205722000004+207777960003+208866960004+210922920003+212011920004+214067880003"],
    [tt |-> "-28800+00000PST  -25200+03600PDT  -25200+03600PWT  -25200+03600PPT  -25200+00000MST  ",
     at |-> "-163206000002-161512920001-088020720003-076939560004-076538520001-071578800002-070248600001-068433840002-067103640001-065288880002-063958680001-062083440002-060813720001-058938480002-057608280001-055793520002-054463320001-052648560002-051318360001-049503600002-048173400001-046358640002-045028440001-043153200002-041823000001-040008240002-038678040001-036863280002-035533080001-033718320002-032388120001-030573360002-029243160001-027367920002-026098200001-024222960002-022650840001-021078000002-019505880001-017933040002-016360920001-014788080002-013155480001-011643120002-010010520001-008437680002-006865560001-005292720002-003720600001-002147760002-000575640001+000997200002+002569320001+004142160002+005774760001+007347600002+008919720001+010492560002+012064680001+013637520002+015209640001+016782480002+018354600001+019927440002+021560040001+023072400002+024705000001+026277840002+027849960001+029422800002+030994920001+032567760002+034139880001+035712720002+037284840001+038857680002+040490280001+042002640002+043635240001+045208080002+046780200001+048353040002+049925160001+051498000002+053070120001+054461520002+056215080001+057606480002+059420520001+060751440002+062565480001+063896400002+065710440001+067101840002+068855400001+070246800002+072000360001+073391760002+075205800001+076536720002+078350760001+079681680002+081495720001+082887120002+084640680001+086032080002+087785640001+089177040002+090930600001+092322000002+094136040001+095466960002+097281000001+098611920002+100425960001+101817360002+103570920001+104962320002+106715880001+108107280002+109921320001+111252240002+113066280001+114397200002+116211240001+117360720002+119416680001+120505680002+122561640001+123650640002+125706600001+126856080002+128912040001+130001040002+132057000001+133146000002+135201960001+136290960002+138346920001+139435920002+141491880001+142580880005"],
    [tt |-> "-21600+00000CST  -18000+03600CDT  -18000+03600CWT  -18000+03600CPT  -18000+00000EST  -14400+03600EDT  ",
     at |-> "-163327680002-161513640001-160182720002-158368680001-090025920002-089179560001-088021440003-076939560004-076539240001-074724480002-073394280001-071579520002-070249320001-068434560002-067104360001-065289600002-063959400001-062084160002-060814440001-058939200002-057609000001-055794240002-054464040001-052649280002-051319080001-049504320002-048174120001-046359360005-038678760001-036864000005-002148840006-000576720005+000996120006+002568240005+114396120006+116210160005+117359640006+119415600005+120504600006+122560560005+123649560006+125705520005+126855000006+128910960005+129999960006+132055920005+133144920006+135200880005+136289880006+138345840005+139434840006+141490800005+142579800006+144635760005+145785240006+147841200005+148930200006+150986160005+152075160006+154131120005+155220120006+157276080005+158365080006+160421040005+161570520006+163626480005+164715480006+166771440005+167860440006+169916400005+171005400006+173061360005+174150360006+176206320005+177295320006+179351280005+180500760006+182556720005+183645720006+185701680005+186790680006+188846640005+189935640006+191991600005+193080600006+195136560005+196286040006+198342000005+199431000006+201486960005+202575960006+204631920005+205720920006+207776880005+208865880006+210921840005+212010840006+214066800005"],
    [tt |-> "-09240+00000LMT  -10800+00000-03  -07200+03600-02  ",
     at |-> "-176721636002-120695760003-119136240002-117537480003-115982640002-063381960003-062206920002-060228360003-059183280002-057074760003-056021040002-053912520003-053135280002-019136520003-018419760002-015516360003-015006960002-012889800003-012112560002-009995400003-008958960002-006841800003-005796720002+049974840003+051123600002+053059320003+054026640002+056212920003+057119760002+059297400003+060204240002+062442360003+063470160002+093891960003+095161680002+097097400003+097218000002+100302840003+101391120002+214748364702"],
    [tt |-> "-14400+00000LMT  -14400+00000AST  -10800+03600ADT  -10800+03600AWT  -10800+03600APT  ",
     at |-> "-213164641202-163207440003-161514360002-088022160004-076939560005-076539960002-052650000003-051319800002+007346160003+008918280002+010491120003+012063240002+013636080003+015208200002+016781040003+018353160002+019926000003+021558600002+023070960003+024703560002+026276400003+027848520002+029421360003+030993480002+032566320003+034138440002+035711280003+037283400002+038856240003+040488840002+042001200003+043633800002+045206640003+046778760002+048351600003+049923720002+051496560003+053068680002+054460080003+056213640002+057605040003+059419080002+060750000003+062564040002+063894960003+065709000002+067100400003+068853960002+070245360003+071998920002+073390320003+075204360002+076535280003+078349320002+079680240003+081494280002+082885680003+084639240002+086030640003+087784200002+089175600003+090929160002+092320560003+094134600002+095465520003+097279560002+098610480003+100424520002+101815920003+103569480002+104960880003+106714440002+108105840003+109919880002+111250800003+113064840002+114395760003+116209800002+117359280003+119415240002+120504240003+122560200002+123649200003+125705160002+126854640003+128910600002+129999600003+132055560002+133144560003+135200520002+136289520003+138345480002+139434480003+141490440002+142579440003+144635400002+145784880003+147840840002+148929840003+150985800002+152074800003+154130760002+155219760003+157275720002+158364720003+160420680002+161570160003+163626120002+164715120003+166771080002+167860080003+169916040002+171005040003+173061000002+174150000003+176205960002+177294960003+179350920002+180500400003+182556360002+183645360003+185701320002+186790320003+188846280002+189935280003+191991240002+193080240003+195136200002+196285680003+198341640002+199430640003+201486600002+202575600003+204631560002+205720560003+207776520002+208865520003+210921480002+212010480003+214066440002"],
    [tt |-> "-12420+00000LMT  -10800+00000-03  -07200+03600-02  -07200+00000-02  -03600+03600-01  ",
     at |-> "-168608358402+032384520003+033895080002+035467560003+037040040002+038612520003+040185000002+041757480003+043329960002+044902440003+046535400002+048107880003+049680360002+051252840003+052825320002+054397800003+055970280002+057542760003+059115240002+060687720003+062260200002+063832680003+065465640002+067038120003+068610600002+070183080003+071755560002+073328040003+074900520002+076473000003+078045480002+079617960003+081190440002+082823400003+084637800002+085968360003+087782760002+089113320003+090927720002+092258280003+094133160002+095403240003+097278120002+098548200003+100423080002+101753640003+103568040002+104898600003+106713000002+108043560003+109918440002+111188520003+113063400002+114333480003+116208360002+117478440003+119353320002+120683880003+122498280002+123828840003+125643240002+126973800003+128848680002+130118760003+131993640002+133263720003+135138600002+136469160003+138283560002+139614120003+141428520002+142759080003+144573480002+145904040003+147778920002+149049000003+150923880002+152193960003+154068840002+155399400003+157213800002+158544360003+160358760002+161689320003+163564200002+164834280003+166709160002+167979240004+171184680005+172999080004+174329640005+176144040004+177474600005+179289000004+180619560005+182494440004+183764520005+185639400004+186909480005+188784360004+190114920005+191929320004+193259880005+195074280004+196404840005+198279720004+199549800005+201424680004+202694760005+204569640004+205839720005+207714600004+209045160005+210859560004+212190120005+214004520004+214748364704"],
    [tt |-> "-12660+00000NST  -09060+03600NDT  -12600+00000NST  -09000+03600NDT  -09000+03600NWT  -09000+03600NPT  -14400+00000AST  -10800+03600ADT  -07200+07200ADDT ",
     at |-> "-163207614802-161514534801-109692174803-106167060004-104897340003-103022100004-101752380003-099877140004-098607420003-096671700004-095462460003-093526740004-092257020003-090381780004-089112060003-087236820005-076939560006-076540140003-074604420004-073334700003-071459460004-070189740003-068314500004-067044780003-065169540004-063899820003-061964100004-060694380003-058940100004-057609900003-055795140004-054464940003-052650180004-051319980003-049505220004-048175020003-046360260004-045030060003-043154820004-041824620003-040009860004-038679660003-036864900004-035534700003-033719940004-032389740003-030574980004-028942380003-027369540004-025797420003-024224580004-022652460003-021079620004-019507500003-017934660004-016362540003-014789700004-013157100003-011990340007-011644560008-010011960007-008439120008-006867000007-005294160008-003722040007-002149200008-000577080007+000995760008+002567880007+004140720008+005773320007+007346160008+008918280007+010491120008+012063240007+013636080008+015208200007+016781040008+018353160007+019926000008+021558600007+023070960008+024703560007+026276400008+027848520007+029421360008+030993480007+032566320008+034138440007+035711280008+037283400007+038856240008+040488840007+042001200008+043633800007+045206640008+046778760007+048351600008+049923720007+051496560008+053068680007+054459366008+056212926007+057604326009+059418006007+060749286008+062563326007+063894246008+065708286007+067099686008+068853246007+070244646008+071998206007+073389606008+075203646007+076534566008+078348606007+079679526008+081493566007+082884966008+084638526007+086029926008+087783486007+089174886008+090928446007+092319846008+094133886007+095464806008+097278846007+098609766008+100423806007+101815206008+103568766007+104960166008+106713726007+108105126008+109919166007+111250086008+113064126007+114395046008+116209086007+117358566008+119414526007+120503526008+122559486007+123648486008+125704446007+126853926008+128909886007+129998886008+132055560007+133144560008+135200520007+136289520008+138345480007+139434480008+141490440007+142579440008+144635400007+145784880008+147840840007+148929840008+150985800007+152074800008+154130760007+155219760008+157275720007+158364720008+160420680007+161570160008+163626120007+164715120008+166771080007+167860080008+169916040007+171005040008+173061000007+174150000008+176205960007+177294960008+179350920007+180500400008+182556360007+183645360008+185701320007+186790320008+188846280007+189935280008+191991240007+193080240008+195136200007+196285680008+198341640007+199430640008+201486600007+202575600008+204631560007+205720560008+207776520007+208865520008+210921480007+212010480008+214066440007"],
    [tt |-> "-18420+00000KMT  -18000+00000EST  -14400+03600EDT  -14400+00000AST  ",
     at |-> "-182768717002+029421720003+030993840002+032566680003+034138800002+035711640003+037283760002+038856600003+040489200002+042001560003+043634160002+045207000003+046779120002+048351960003+049924080002+051496920003+053069040002+054460440003+056214000002+057605400003+059419440002+060750360003+062564400002+063895320003+065709360002+067100760003+068854320002+070245720003+071999280002+073390680003+075204720002+076535640003+078349680002+079680600003+081494640002+082886040003+084639600002+086031000003+087784560002+089175960003+090929520002+092320920003+094134960002+095465880003+097279920002+098610840003+100424880002+101816280003+103569840002+104961240003+106714800002+108106200003+109920240002+111251160003+113065200002+114396120003+116210160002+117359640003+119415600002+120504600003+122560560002+123649560003+125705520002+126855000003+128910960002+129999960003+132055920002+133144920003+135200880002+136289880003+138345840002+139434840003+141490800002+142579800004+152075160003+154131120002+155220120003+157276080002+158365080003+160421040002+161570520003+163626480002+164715480003+166771440002+167860440003+169916400002+171005400003+173061360002+174150360003+176206320002+177295320003+179351280002+180500760003+182556720002+183645720003+185701680002+186790680003+188846640002+189935640003+191991600002+193080600003+195136560002+196286040003+198342000002+199431000003+201486960002+202575960003+204631920002+205720920003+207776880002+208865880003+210921840002+212010840003+214066800002"],
    [tt |-> "-14820+00000LMT  -14400+00000AST  ",
     at |-> "-184626678002"],
    [tt |-> "-14760+00000LMT  -14400+00000AST  ",
     at |-> "-184825403202"],
    [tt |-> "-21720+00000LMT  -21600+00000CST  -18000+03600CDT  ",
     at |-> "-161704067602+012305520003+013091400002+042234480003+043305480002+066970800003+068421960002+114637680003+115967880002"],
    [tt |-> "-18840+00000QMT  -18000+00000-05  -14400+03600-04  ",
     at |-> "-123074916002+072292680003+072888480002+214748364702"],
    [tt |-> "-13980+00000LMT  -14400+00000-04  -13500+00000-0345-10800+00000-03  ",
     at |-> "-184358924102-173057760003+017609670004+070184160002+214748364702"],
    [tt |-> "-15240+00000LMT  -14400+00000AST  -10800+03600ADT  -10800+03600AWT  -10800+03600APT  ",
     at |-> "-213164553602-169627680003-168046920002-163207440003-161514360002-156676320003-155709000002-153548640003-152494920002-150446880003-149341320002-147241440003-146196360002-144096480003-142939080002-140951520003-139673160002-137685600003-136649160002-134661600003-133383240002-131395680003-130367880002-128250720003-127266120002-125105760003-124008840002-121960800003-120742920002-118876320003-117597960002-115731360003-114392520002-112404960003-111377160002-109139040003-108102600002-105985440003-105078600002-103091040003-101812680002-099946080003-098667720002-096559200003-095522760002-093595680003-092317320002-090450720003-089172360002-088022160004-076939560005-076539960002-074725200003-073395000002-071580240003-070250040002-068435280003-067105080002-065290320003-063960120002-058939920003-057609720002-055794960003-054464760002-052650000003-051319800002-049505040003-048174840002-043154640003-041824440002-040009680003-038679480002-036864720003-035534520002-033719760003-032389560002-024224400003-022652280002-021079440003-019507320002-017934480003-016362360002-014789520003-013156920002-011644560003-010011960002-008439120003-006867000002-005294160003-003722040002-002149200003-000577080002+000995760003+002567880002+004140720003+005773320002+007346160003+008918280002+010491120003+012063240002+013636080003+015208200002+016781040003+018353160002+019926000003+021558600002+023070960003+024703560002+026276400003+027848520002+029421360003+030993480002+032566320003+034138440002+035711280003+037283400002+038856240003+040488840002+042001200003+043633800002+045206640003+046778760002+048351600003+049923720002+051496560003+053068680002+054460080003+056213640002+057605040003+059419080002+060750000003+062564040002+063894960003+065709000002+067100400003+068853960002+070245360003+071998920002+073390320003+075204360002+076535280003+078349320002+079680240003+081494280002+082885680003+084639240002+086030640003+087784200002+089175600003+090929160002+092320560003+094134600002+095465520003+097279560002+098610480003+100424520002+101815920003+103569480002+104960880003+106714440002+108105840003+109919880002+111250800003+113064840002+114395760003+116209800002+117359280003+119415240002+120504240003+122560200002+123649200003+125705160002+126854640003+128910600002+129999600003+132055560002+133144560003+135200520002+136289520003+138345480002+139434480003+141490440002+142579440003+144635400002+145784880003+147840840002+148929840003+150985800002+152074800003+154130760002+155219760003+157275720002+158364720003+160420680002+161570160003+163626120002+164715120003+166771080002+167860080003+169916040002+171005040003+173061000002+174150000003+176205960002+177294960003+179350920002+180500400003+182556360002+183645360003+185701320002+186790320003+188846280002+189935280003+191991240002+193080240003+195136200002+196285680003+198341640002+199430640003+201486600002+202575600003+204631560002+205720560003+207776520002+208865520003+210921480002+212010480003+214066440002"],
    [tt |-> "-19800+00000HMT  -18000+00000CST  -14400+03600CDT  ",
     at |-> "-140281382402-131153400003-130099680002-093353400003-092567520002-090208440003-089362080002-087003000003-086217120002-077568120003-076782240002-074423160003-073637280002-014470200003-013425120002-011342520003-010254240002-008629560003-007290720002-005415480003-004145760002-002149560003-000577440002+000995400003+002567520002+004140360003+005772960002+007345800003+008736480002+010490760003+011890080002+013635720003+015043680002+016780680003+018352800002+019925640003+021558240002+023070600003+024703200002+026336520003+027666720002+029058120003+030872160002+032203080003+034017120002+035831880003+037162080002+038976840003+040307040002+042121800003+043452000002+045266760003+046657440002+048411720003+049802400002+051133320003+052947360002+054278280003+056092320002+057483720003+059237280002+060628680003+062382240002+063894600003+065587680002+067100040003+068733000002+070245000003+071877960002+073389960003+075022920002+076534920003+078167880002+079679880003+081312840002+082885320003+084457800002+086030280003+087663240002+089114760003+090929160002+092259720003+094134600002+095465160003+097279560002+098610120003+100424520002+101815560003+103569480002+104960520003+106714440002+108045000003+116209800002+117358920003+119354760002+120564360003+122499720002+123648840003+125644680002+126854280003+128850120002+130059720003+132116040002+133325640003+135200520002+136289160003+138345480002+139434120003+141490440002+142579080003+144635400002+145784520003+147840840002+148929480003+150985800002+152074440003+154130760002+155219400003+157275720002+158364360003+160420680002+161569800003+163626120002+164714760003+166771080002+167859720003+169916040002+171004680003+173061000002+174149640003+176205960002+177294600003+179350920002+180500040003+182556360002+183645000003+185701320002+186789960003+188846280002+189934920003+191991240002+193079880003+195136200002+196285320003+198341640002+199430280003+201486600002+202575240003+204631560002+205720200003+207776520002+208865160003+210921480002+212010120003+214066440002"],
    [tt |-> "-26640+00000LMT  -25200+00000MST  -21600+00000CST  -21600+03600MDT  ",
     at |-> "-151473960002-134314920003-123480720002-122046120004-120715920002-119134440003-087382800002+082886760004+084640320002+086031720004+087785280002+089176680004+090930240002"],
    [tt |-> "-21600+00000CST  -18000+03600CDT  -18000+03600CWT  -18000+03600CPT  -18000+00000EST  ",
     at |-> "-163327680002-161513640001-160182720002-158368680001-088021440003-076939560004-076539240001-071579520002-070249320001-068434560002-067104360001-065289600002-063959400001-062084160002-060814440001-058939200002-057609000001-055794240002-054464040001-052649280002-051319080001-049504320002-048174120001-046359360002-044726760001-043153920002-041581800001-040008960002-038678760001-036864000002-035533800001-033719040002-032146920001-030574080002-028941480001-027368640002-025796520001-024223680005-019506600001-008438400002-006866280001-005293440002-003721320001-002148480002-000576360001+000996480002+002568600001+004141440002+005774040001+007346880002+008919000001+010491840002+012063960001+012669120002+015208920001+016237440002+018353880001+019926720002+021559320001+023071680002+024704280001+026277120002+027849240001+029422080002+030994200001+032567040002+034139160001+035712000002+037284120001+038856960002+040489560001+042001920002+043634520001+045207360002+046779480001+048352320002+049924440001+051497280002+053069400001+054460800002+056214360001+057605760002+059419800001+060750720002+062564760001+063895680002+065709720001+067101120002+068854680005+114396120002+116210520001+117360000002+119415960001+120504960002+122560920001+123649920002+125705880001+126855360002+128911320001+130000320002+132056280001+133145280002+135201240001+136290240002+138346200001+139435200002+141491160001+142580160002+144636120001+145785600002+147841560001+148930560002+150986520001+152075520002+154131480001+155220480002+157276440001+158365440002+160421400001+161570880002+163626840001+164715840002+166771800001+167860800002+169916760001+171005760002+173061720001+174150720002+176206680001+177295680002+179351640001+180501120002+182557080001+183646080002+185702040001+186791040002+188847000001+189936000002+191991960001+193080960002+195136920001+196286400002+198342360001+199431360002+201487320001+202576320002+204632280001+205721280002+207777240001+208866240002+210922200001+212011200002+214067160001"],
    [tt |-> "-21600+00000CST  -18000+03600CDT  -18000+03600CWT  -18000+03600CPT  -18000+00000EST  -14400+03600EDT  -18000+00000CDT  ",
     at |-> "-163327680002-161513640001-160182720002-158368680001-088021440003-076939560004-076539240001-058939200002-057609000001-049504320002-048174120001-046359360002-045029160001-043153920002-041823720001-040008960002-038678760001-036864000002-035533800001-033719040002-032388840001-030574080002-029243880001-027368640005-002148840006-000576720005+000996120006+002568240005+004141080006+005773680005+007346520006+008918640005+010491480006+012063600005+012668760007+015208920005+016237080006+018353520005+114396120006+116210160005+117359640006+119415600005+120504600006+122560560005+123649560006+125705520005+126855000006+128910960005+129999960006+132055920005+133144920006+135200880005+136289880006+138345840005+139434840006+141490800005+142579800006+144635760005+145785240006+147841200005+148930200006+150986160005+152075160006+154131120005+155220120006+157276080005+158365080006+160421040005+161570520006+163626480005+164715480006+166771440005+167860440006+169916400005+171005400006+173061360005+174150360006+176206320005+177295320006+179351280005+180500760006+182556720005+183645720006+185701680005+186790680006+188846640005+189935640006+191991600005+193080600006+195136560005+196286040006+198342000005+199431000006+201486960005+202575960006+204631920005+205720920006+207776880005+208865880006+210921840005+212010840006+214066800005"],
    [tt |-> "-21600+00000CST  -18000+03600CDT  -18000+03600CWT  -18000+03600CPT  -18000+00000EST  -14400+03600EDT  ",
     at |-> "-163327680002-161513640001-160182720002-158368680001-088021440003-076939560004-076539240001-046299600002-045029160001-043153920002-041823720001-040008960002-038678760001-036864000002-035533800001-033719040002-032388840001-030574080002-029243880001-027368640002-025796520001-024223680002-022651560001-021078720002-019506600001-017933760002-016361640001-014788800005-010011240001-008438400002-006866280001-005293440002-003721320001-002148480002-000576360001+000996480002+002568600001+004141440002+005774040001+007346880002+008919000001+010491840002+012063960001+012669120002+015208920001+016237440002+018353880001+019926720002+021559320001+023071680002+024704280005+114396120002+116210520001+117360000002+119415960005+120504600006+122560560005+123649560006+125705520005+126855000006+128910960005+129999960006+132055920005+133144920006+135200880005+136289880006+138345840005+139434840006+141490800005+142579800006+144635760005+145785240006+147841200005+148930200006+150986160005+152075160006+154131120005+155220120006+157276080005+158365080006+160421040005+161570520006+163626480005+164715480006+166771440005+167860440006+169916400005+171005400006+173061360005+174150360006+176206320005+177295320006+179351280005+180500760006+182556720005+183645720006+185701680005+186790680006+188846640005+189935640006+191991600005+193080600006+195136560005+196286040006+198342000005+199431000006+201486960005+202575960006+204631920005+205720920006+207776880005+208865880006+210921840005+212010840006+214066800005"],
    [tt |-> "-21600+00000CST  -18000+03600CDT  -18000+03600CWT  -18000+03600CPT  -18000+00000EST  -14400+07200EDT  -14400+03600EDT  ",
     at |-> "-163327680002-161513640001-160182720002-158368680001-088021440003-076939560004-076539240001-046299600002-045029160001-043153920002-041823720001-040008960002-038678760001-036864000002-035533800001-033719040002-032388840001-030574080002-029243880001-027368640002-025796520001-024223680002-022651560001-021078720002-019506600001-017933760005-006866280001-005293440002-003721320001-002148480006-000576720005+000996120007+002568240005+114396120002+116210520001+117360000002+119415960001+120504960002+122560920001+123649920002+125705880001+126855360002+128911320001+130000320002+132056280001+133145280002+135201240001+136290240002+138346200001+139435200002+141491160001+142580160002+144636120001+145785600002+147841560001+148930560002+150986520001+152075520002+154131480001+155220480002+157276440001+158365440002+160421400001+161570880002+163626840001+164715840002+166771800001+167860800002+169916760001+171005760002+173061720001+174150720002+176206680001+177295680002+179351640001+180501120002+182557080001+183646080002+185702040001+186791040002+188847000001+189936000002+191991960001+193080960002+195136920001+196286400002+198342360001+199431360002+201487320001+202576320002+204632280001+205721280002+207777240001+208866240002+210922200001+212011200002+214067160001"],
    [tt |-> "-21600+00000CST  -18000+03600CDT  -18000+03600CWT  -18000+03600CPT  -18000+00000EST  -14400+03600EDT  ",
     at |-> "-163327680002-161513640001-160182720002-158368680001-088021440003-076939560004-076539240001-049504320005-002148840006-000576720005+000996120006+002568240005+004141080006+005773680005+007346520006+008918640005+114396120006+116210160005+117359640006+119415600005+120504600006+122560560005+123649560006+125705520005+126855000006+128910960005+129999960006+132055920005+133144920006+135200880005+136289880006+138345840005+139434840006+141490800005+142579800006+144635760005+145785240006+147841200005+148930200006+150986160005+152075160006+154131120005+155220120006+157276080005+158365080006+160421040005+161570520006+163626480005+164715480006+166771440005+167860440006+169916400005+171005400006+173061360005+174150360006+176206320005+177295320006+179351280005+180500760006+182556720005+183645720006+185701680005+186790680006+188846640005+189935640006+191991600005+193080600006+195136560005+196286040006+198342000005+199431000006+201486960005+202575960006+204631920005+205720920006+207776880005+208865880006+210921840005+212010840006+214066800005"],
    [tt |-> "-21600+00000CST  -18000+03600CDT  -18000+03600CWT  -18000+03600CPT  -18000+00000EST  -14400+03600EDT  ",
     at |-> "-163327680002-161513640001-160182720002-158368680001-088021440003-076939560004-076539240001-074724480002-073394280001-052649280002-051319080001-049504320002-048174120001-046299600002-045029160001-043153920002-041823720001-040008960002-038678760001-036864000002-035533800001-033719040002-032388840001-030574080002-028941480001-027368640002-026098920001-024223680002-022651560001-021078720002-019506600001-017933760005-002148840006-000576720005+000996120006+002568240005+114396120002+116210520001+117360000002+119415960005+120504600006+122560560005+123649560006+125705520005+126855000006+128910960005+129999960006+132055920005+133144920006+135200880005+136289880006+138345840005+139434840006+141490800005+142579800006+144635760005+145785240006+147841200005+148930200006+150986160005+152075160006+154131120005+155220120006+157276080005+158365080006+160421040005+161570520006+163626480005+164715480006+166771440005+167860440006+169916400005+171005400006+173061360005+174150360006+176206320005+177295320006+179351280005+180500760006+182556720005+183645720006+185701680005+186790680006+188846640005+189935640006+191991600005+193080600006+195136560005+196286040006+198342000005+199431000006+201486960005+202575960006+204631920005+205720920006+207776880005+208865880006+210921840005+212010840006+214066800005"],
    [tt |-> "-21600+00000CST  -18000+03600CDT  -18000+03600CWT  -18000+03600CPT  -18000+00000EST  -14400+03600EDT  -14400+07200EDT  ",
     at |-> "-163327680002-161513640001-160182720002-158368680001-088021440003-076939560004-076539240001-074724480002-073394280001-071579520002-070249320001-068434560002-067104360001-065289600002-063959400001-062084160002-060814440001-058939200002-057609000001-055794240002-054464040001-052649280002-051319080001-049504320002-048174120001-046359360002-044726760001-043153920002-041581800001-040008960002-038678760001-036864000002-035533800001-033719040002-032388840001-030574080002-029243880001-027368640005-002148840006-000576720005+000996120006+002568240005+114396120002+116210520001+117360000007+119415600005+120504600006+122560560005+123649560006+125705520005+126855000006+128910960005+129999960006+132055920005+133144920006+135200880005+136289880006+138345840005+139434840006+141490800005+142579800006+144635760005+145785240006+147841200005+148930200006+150986160005+152075160006+154131120005+155220120006+157276080005+158365080006+160421040005+161570520006+163626480005+164715480006+166771440005+167860440006+169916400005+171005400006+173061360005+174150360006+176206320005+177295320006+179351280005+180500760006+182556720005+183645720006+185701680005+186790680006+188846640005+189935640006+191991600005+193080600006+195136560005+196286040006+198342000005+199431000006+201486960005+202575960006+204631920005+205720920006+207776880005+208865880006+210921840005+212010840006+214066800005"],
    [tt |-> "+00000+00000-00  -28800+00000PST  -25200+03600PDT  -21600+07200MDT  -25200+00000MST  -21600+03600MDT  ",
     at |-> "-053645760002+007347600003+008919720002+010492560003+012064680002+013637520003+015209640002+016782480003+018354600002+019927440003+021560040002+023072400003+024705000002+026277840003+027849960002+029422800004+030994560005+032567400006+034139520005+035712360006+037284480005+038857320006+040489920005+042002280006+043634880005+045207720006+046779840005+048352680006+049924800005+051497640006+053069760005+054461160006+056214720005+057606120006+059420160005+060751080006+062565120005+063896040006+065710080005+067101480006+068855040005+070246440006+072000000005+073391400006+075205440005+076536360006+078350400005+079681320006+081495360005+082886760006+084640320005+086031720006+087785280005+089176680006+090930240005+092321640006+094135680005+095466600006+097280640005+098611560006+100425600005+101817000006+103570560005+104961960006+106715520005+108106920006+109920960005+111251880006+113065920005+114396840006+116210880005+117360360006+119416320005+120505320006+122561280005+123650280006+125706240005+126855720006+128911680005+130000680006+132056640005+133145640006+135201600005+136290600006+138346560005+139435560006+141491520005+142580520006+144636480005+145785960006+147841920005+148930920006+150986880005+152075880006+154131840005+155220840006+157276800005+158365800006+160421760005+161571240006+163627200005+164716200006+166772160005+167861160006+169917120005+171006120006+173062080005+174151080006+176207040005+177296040006+179352000005+180501480006+182557440005+183646440006+185702400005+186791400006+188847360005+189936360006+191992320005+193081320006+195137280005+196286760006+198342720005+199431720006+201487680005+202576680006+204632640005+205721640006+207777600005+208866600006+210922560005+212011560006+214067520005"],
    [tt |-> "+00000+00000-00  -14400+03600EWT  -14400+03600EPT  -18000+00000EST  -14400+03600EDT  -21600+00000CST  -18000+03600CDT  ",
     at |-> "-086529600002-076939560003-076539600004+007346520005+008918640004+010491480005+012063600004+013636440005+015208560004+016781400005+018353520004+019926360005+021558960004+023071320005+024703920004+026276760005+027848880004+029421720005+030993840004+032566680005+034138800004+035711640005+037283760004+038856600005+040489200004+042001560005+043634160004+045207000005+046779120004+048351960005+049924080004+051496920005+053069040004+054460440005+056214000004+057605400005+059419440004+060750360005+062564400004+063895320005+065709360004+067100760005+068854320004+070245720005+071999280004+073390680005+075204720004+076535640005+078349680004+079680600005+081494640004+082886040005+084639600004+086031000005+087784560004+089175960005+090929520004+092320920005+094134960006+095466240007+097280280004+098610840005+100424880004+101816280005+103569840004+104961240005+106714800004+108106200005+109920240004+111251160005+113065200004+114396120005+116210160004+117359640005+119415600004+120504600005+122560560004+123649560005+125705520004+126855000005+128910960004+129999960005+132055920004+133144920005+135200880004+136289880005+138345840004+139434840005+141490800004+142579800005+144635760004+145785240005+147841200004+148930200005+150986160004+152075160005+154131120004+155220120005+157276080004+158365080005+160421040004+161570520005+163626480004+164715480005+166771440004+167860440005+169916400004+171005400005+173061360004+174150360005+176206320004+177295320005+179351280004+180500760005+182556720004+183645720005+185701680004+186790680005+188846640004+189935640005+191991600004+193080600005+195136560004+196286040005+198342000004+199431000005+201486960004+202575960005+204631920004+205720920005+207776880004+208865880005+210921840004+212010840005+214066800004"],
    [tt |-> "-18420+00000KMT  -18000+00000EST  -14400+03600EDT  ",
     at |-> "-182768717002+012668760003+015208560002+016237080003+018353520002+019926360003+021558960002+023071320003+024703920002+026276760003+027848880002+029421720003+030993840002+032566680003+034138800002+035711640003+037283760002+038856600003+040489200002+042001560003+043634160002"],
    [tt |-> "-28800+00000PST  -25200+03600PWT  -25200+03600PPT  -25200+03600PDT  -28800+03600YDT  -32400+00000YST  -32400+00000AKST -28800+03600AKDT ",
     at |-> "-088020720002-076939560003-076538520001-002147760004-000575640001+000997200004+002569320001+004142160004+005774760001+007347600004+008919720001+010492560004+012064680001+012669840004+015209640001+016238160004+018354600001+019927440004+021560040001+023072400004+024705000001+026277840004+027849960001+029422800004+030994920001+032567760005+034140240001+035712720004+037284840001+038857680004+040490280001+042002640004+043635240006+043903080007+045208440008+046780560007+048353400008+049925520007+051498360008+053070480007+054461880008+056215440007+057606840008+059420880007+060751800008+062565840007+063896760008+065710800007+067102200008+068855760007+070247160008+072000720007+073392120008+075206160007+076537080008+078351120007+079682040008+081496080007+082887480008+084641040007+086032440008+087786000007+089177400008+090930960007+092322360008+094136400007+095467320008+097281360007+098612280008+100426320007+101817720008+103571280007+104962680008+106716240007+108107640008+109921680007+111252600008+113066640007+114397560008+116211600007+117361080008+119417040007+120506040008+122562000007+123651000008+125706960007+126856440008+128912400007+130001400008+132057360007+133146360008+135202320007+136291320008+138347280007+139436280008+141492240007+142581240008+144637200007+145786680008+147842640007+148931640008+150987600007+152076600008+154132560007+155221560008+157277520007+158366520008+160422480007+161571960008+163627920007+164716920008+166772880007+167861880008+169917840007+171006840008+173062800007+174151800008+176207760007+177296760008+179352720007+180502200008+182558160007+183647160008+185703120007+186792120008+188848080007+189937080008+191993040007+193082040008+195138000007+196287480008+198343440007+199432440008+201488400007+202577400008+204633360007+205722360008+207778320007+208867320008+210923280007+212012280008+214068240007"],
    [tt |-> "-21600+00000CST  -18000+03600CDT  -18000+03600CWT  -18000+03600CPT  -18000+00000EST  -14400+03600EDT  -18000+00000CDT  ",
     at |-> "-163327680002-161513640001-160182720002-158368680001-153590400002-152528040001-090509760002-089179560001-088021440003-076939560004-076539240001-074725194002-074422440001-062084160002-060814440001-058939200002-057609000001-055794240002-054464040001-052649280002-051319080001-049504320002-048174120001-046359360002-045029160001-043153920002-041581800001-040008960002-038436840001-036864000002-035291880001-033719040002-032146920001-030574080002-028941480001-027368640002-026643240005-005293800006-003721680005-002148840006-000576720005+000996120006+002568240005+004141080006+005773680005+007346520006+008918640005+010491480006+012063600005+012668760007+015208920005+016237080006+018353520005+019926360006+021558960005+023071320006+024703920005+026276760006+027848880005+029421720006+030993840005+032566680006+034138800005+035711640006+037283760005+038856600006+040489200005+042001560006+043634160005+045207000006+046779120005+048351960006+049924080005+051496920006+053069040005+054460440006+056214000005+057605400006+059419440005+060750360006+062564400005+063895320006+065709360005+067100760006+068854320005+070245720006+071999280005+073390680006+075204720005+076535640006+078349680005+079680600006+081494640005+082886040006+084639600005+086031000006+087784560005+089175960006+090929520005+092320920006+094134960005+095465880006+097279920005+098610840006+100424880005+101816280006+103569840005+104961240006+106714800005+108106200006+109920240005+111251160006+113065200005+114396120006+116210160005+117359640006+119415600005+120504600006+122560560005+123649560006+125705520005+126855000006+128910960005+129999960006+132055920005+133144920006+135200880005+136289880006+138345840005+139434840006+141490800005+142579800006+144635760005+145785240006+147841200005+148930200006+150986160005+152075160006+154131120005+155220120006+157276080005+158365080006+160421040005+161570520006+163626480005+164715480006+166771440005+167860440006+169916400005+171005400006+173061360005+174150360006+176206320005+177295320006+179351280005+180500760006+182556720005+183645720006+185701680005+186790680006+188846640005+189935640006+191991600005+193080600006+195136560005+196286040006+198342000005+199431000006+201486960005+202575960006+204631920005+205720920006+207776880005+208865880006+210921840005+212010840006+214066800005"],
    [tt |-> "-21600+00000CST  -18000+03600CDT  -18000+03600CWT  -18000+03600CPT  -18000+00000EST  -14400+03600EDT  ",
     at |-> "-163327680002-161513640001-160182720002-158368680001-088021440003-076939560004-076539240001-005293440002-003721320001-002148480002-000576360001+000996480002+002568600001+004141440002+005774040001+007346880002+008919000001+010491840002+012063960001+012669120002+015208920001+016237440002+018353880001+019926720002+021559320001+023071680002+024704280001+026277120002+027849240001+029422080002+030994200001+032567040002+034139160001+035712000002+037284120001+038856960002+040489560001+042001920002+043634520001+045207360002+046779480001+048352320002+049924440001+051497280002+053069400001+054460800002+056214360001+057605760002+059419800001+060750720002+062564760001+063895680002+065709720001+067101120002+068854680001+070246080002+071999640001+073391040002+075205080001+076536000002+078350040001+079680960002+081495000001+082886400002+084639960001+086031360002+087784920001+089176320002+090929880001+092321280002+094135320001+095466240002+097280280005+098610840006+100424880005+101816280006+103569840005+104961240006+106714800005+108106200006+109920240005+111251160006+113065200005+114396120006+116210160005+117359640006+119415600005+120504600006+122560560005+123649560006+125705520005+126855000006+128910960005+129999960006+132055920005+133144920006+135200880005+136289880006+138345840005+139434840006+141490800005+142579800006+144635760005+145785240006+147841200005+148930200006+150986160005+152075160006+154131120005+155220120006+157276080005+158365080006+160421040005+161570520006+163626480005+164715480006+166771440005+167860440006+169916400005+171005400006+173061360005+174150360006+176206320005+177295320006+179351280005+180500760006+182556720005+183645720006+185701680005+186790680006+188846640005+189935640006+191991600005+193080600006+195136560005+196286040006+198342000005+199431000006+201486960005+202575960006+204631920005+205720920006+207776880005+208865880006+210921840005+212010840006+214066800005"],
    [tt |-> "-14400+00000AST  -10800+03600AWT  -10800+03600APT  ",
     at |-> "-087305760002-076939560003-076539960001"],
    [tt |-> "-16380+00000CMT  -12780+03600BST  -14400+00000-04  ",
     at |-> "-120595484402-119230724403+214748364703"],
    [tt |-> "-18540+00000LMT  -18000+00000-05  -14400+03600-04  ",
     at |-> "-193853828402-100982520003-100205280002-098675640003-097103520002-095530680003-093958560002+050493960003+051271200002+053647560003+054424800002+063117000003+063894240002+075740040003+076517280002+214748364702"],
    [tt |-> "-28800+00000PST  -25200+03600PDT  -25200+03600PWT  -25200+03600PPT  ",
     at |-> "-163326960002-161512920001-160182000002-158367960001-088020720003-076939560004-076538520001-068796714002-066265560001-062083800002-060813720001-058938840002-057608280001-055793880002-054463320001-052648920002-051318360001-049503960002-048173400001-046359000002-045028440001-043153560002-041823000001-040008600002-038678040001-036863640002-035533080001-033718680002-032388120001-030573720002-029243160001-027368280002-026098200001-024223320002-022650840001-021078360002-019505880001-017933400002-016360920001-014788440002-013155480001-011643480002-010010520001-008437680002-006865560001-005292720002-003720600001-002147760002-000575640001+000997200002+002569320001+004142160002+005774760001+007347600002+008919720001+010492560002+012064680001+012669840002+015209640001+016238160002+018354600001+019927440002+021560040001+023072400002+024705000001+026277840002+027849960001+029422800002+030994920001+032567760002+034139880001+035712720002+037284840001+038857680002+040490280001+042002640002+043635240001+045208080002+046780200001+048353040002+049925160001+051498000002+053070120001+054461520002+056215080001+057606480002+059420520001+060751440002+062565480001+063896400002+065710440001+067101840002+068855400001+070246800002+072000360001+073391760002+075205800001+076536720002+078350760001+079681680002+081495720001+082887120002+084640680001+086032080002+087785640001+089177040002+090930600001+092322000002+094136040001+095466960002+097281000001+098611920002+100425960001+101817360002+103570920001+104962320002+106715880001+108107280002+109921320001+111252240002+113066280001+114397200002+116211240001+117360720002+119416680001+120505680002+122561640001+123650640002+125706600001+126856080002+128912040001+130001040002+132057000001+133146000002+135201960001+136290960002+138346920001+139435920002+141491880001+142580880002+144636840001+145786320002+147842280001+148931280002+150987240001+152076240002+154132200001+155221200002+157277160001+158366160002+160422120001+161571600002+163627560001+164716560002+166772520001+167861520002+169917480001+171006480002+173062440001+174151440002+176207400001+177296400002+179352360001+180501840002+182557800001+183646800002+185702760001+186791760002+188847720001+189936720002+191992680001+193081680002+195137640001+196287120002+198343080001+199432080002+201488040001+202577040002+204633000001+205722000002+207777960001+208866960002+210922920001+212011920002+214067880001"],
    [tt |-> "-08580+00000LMT  -10800+00000-03  -07200+03600-02  ",
     at |-> "-176721702802-120695760003-119136240002-117537480003-115982640002-063381960003-062206920002-060228360003-059183280002-057074760003-056021040002-053912520003-053135280002-019136520003-018419760002-015516360003-015006960002-012889800003-012112560002-009995400003-008958960002-006841800003-005796720002+049974840003+051123600002+053059320003+054026640002+056212920003+057119760002+059297400003+060204240002+062442360003+063470160002+081372600003+082400400002+093891960003+095161680002+097097400003+097218000002+100302840003+101391120002+214748364702"],
    [tt |-> "-20700+00000MMT  -21600+00000CST  -18000+00000EST  -18000+03600CDT  ",
     at |-> "-112110568802+010508400003+016175880002+029058480004+029913480002+032203440004+033058440002+069426000003+071731080002+072586800003+085209480002+111311280004+112822920002+114638400004+115968240002"],
    [tt |-> "-14400+00000LMT  -14400+00000-04  -10800+03600-03  ",
     at |-> "-176721119602-120695400003-119135880002-117537120003-115982280002-063381600003-062206560002-060228000003-059182920002-057074400003-056020680002-053912160003-053134920002-019136160003-018419400002-015516000003-015006600002-012889440003-012112200002-009995040003-008958600002-006841440003-005796360002+049975200003+051123960002+053059680003+054027000002+056213280003+057120120002+075083040003+076171320002+214748364702"],
    [tt |-> "-14640+00000FFMT -14400+00000AST  -10800+03600ADT  ",
     at |-> "-185153734002+032384160003+033895800002"],
    [tt |-> "-23400+00000LMT  -21600+00000CST  -18000+03600CDT  ",
     at |-> "-151474320002+057605760003+059419800002+082886400003+084639960002+086031360003+087784920002+089176320003+090929880002+092321280003+094135320002+095466240003+097280280002+098913600003+100183320002+101816640003+103570200002+104961600003+106715160002+108106560003+109920600002+111251520003+113065560002+114396480003+116210520002+117541440003+119355480002+120746880003+122500440002+123891840003+125645400002+126855360003+128911320002+130000320003+132056280002+133145280003+135201240002+136290240003+138346200002+139435200003+141491160002+142580160003+144636120002+145785600003+147841560002+148930560003+150986520002+152075520003+154131480002+155220480003+157276440002+158365440003+160421400002+161570880003+163626840002+164715840003+166771800002+167860800003+169916760002+171005760003+173061720002+174150720003+176206680002+177295680003+179351640002+180501120003+182557080002+183646080003+185702040002+186791040003+188847000002+189936000003+191991960002+193080960003+195136920002+196286400003+198342360002+199431360003+201487320002+202576320003+204632280002+205721280003+207777240002+208866240003+210922200002+212011200003+214067160002"],
    [tt |-> "-25560+00000LMT  -25200+00000MST  -21600+00000CST  -21600+03600MDT  ",
     at |-> "-151473960002-134314920003-123480720002-122046120004-120715920002-119134440003-087382800002+082886760004+084640320002+086031720004+087785280002+089176680004+090930240002+092321640004+094135680002+095466600004+097280640002+098913960004+100183680002+101817000004+103570560002+104961960004+106715520002+108106920004+109920960002+111251880004+113065920002+114396840004+116210880002+117541800004+119355840002+120747240004+122500800002+123892200004+125645760002+127037160004+128851200002+130182120004+131996160002+133327080004+135141120002+136532520004+138286080002+139677480004+141431040002+142822440004+144576000002+145967400004+147781440002+149112360004+150926400002+152257320004+154071360002+155462760004+157216320002+158607720004+160361280002+161752680004+163566720002+164897640004+166711680002"],
    [tt |-> "-21600+00000CST  -18000+03600CDT  -18000+03600CWT  -18000+03600CPT  -18000+00000EST  ",
     at |-> "-163327680002-161513640001-160182720002-158368680001-088021440003-076939560004-076539240001-074724480002-073394280001-011643840002-010011240001-002148480005+010491480002+012063960001+012669120002+015208920001+016237440002+018353880001+019926720002+021559320001+023071680002+024704280001+026277120002+027849240001+029422080002+030994200001+032567040002+034139160001+035712000002+037284120001+038856960002+040489560001+042001920002+043634520001+045207360002+046779480001+048352320002+049924440001+051497280002+053069400001+054460800002+056214360001+057605760002+059419800001+060750720002+062564760001+063895680002+065709720001+067101120002+068854680001+070246080002+071999640001+073391040002+075205080001+076536000002+078350040001+079680960002+081495000001+082886400002+084639960001+086031360002+087784920001+089176320002+090929880001+092321280002+094135320001+095466240002+097280280001+098611200002+100425240001+101816640002+103570200001+104961600002+106715160001+108106560002+109920600001+111251520002+113065560001+114396480002+116210520001+117360000002+119415960001+120504960002+122560920001+123649920002+125705880001+126855360002+128911320001+130000320002+132056280001+133145280002+135201240001+136290240002+138346200001+139435200002+141491160001+142580160002+144636120001+145785600002+147841560001+148930560002+150986520001+152075520002+154131480001+155220480002+157276440001+158365440002+160421400001+161570880002+163626840001+164715840002+166771800001+167860800002+169916760001+171005760002+173061720001+174150720002+176206680001+177295680002+179351640001+180501120002+182557080001+183646080002+185702040001+186791040002+188847000001+189936000002+191991960001+193080960002+195136920001+196286400002+198342360001+199431360002+201487320001+202576320002+204632280001+205721280002+207777240001+208866240002+210922200001+212011200002+214067160001"],
    [tt |-> "-21480+00000LMT  -21600+00000CST  -18000+00000EST  -18000+03600CDT  ",
     at |-> "-151474320002+037820160003+040506840002+082886400004+084639960002+086031360004+087784920002+089176320004+090929880002+092321280004+094135320002+095466240004+097280280002+098913600004+100183320002+101816640004+103570200002+104961600004+106715160002+108106560004+109920600002+111251520004+113065560002+114396480004+116210520002+117541440004+119355480002+120746880004+122500440002+123891840004+125645400002+127036800004+128850840002+130181760004+131995800002+133326720004+135140760002+136532160004+138285720002+139677120004+141430680002+142822080004+144575640002+145967040004+147781080002+149112000004+150926040002+152256960004+154071000002+155462400004+157215960002+158607360004+160360920002+161752320004+163566360002+164897280004+166711320002"],
    [tt |-> "-28800+00000PST  -25200+03600PWT  -25200+03600PPT  -25200+03600PDT  -32400+00000AKST -28800+03600AKDT ",
     at |-> "-088020720002-076939560003-076538520001-002147760004-000575640001+000997200004+002569320001+004142160004+005774760001+007347600004+008919720001+010492560004+012064680001+012669840004+015209640001+016238160004+018354600001+019927440004+021560040001+023072400004+024705000001+026277840004+027849960001+029422800004+030994920001+032567760004+034139880001+035712720004+037284840001+038857680004+040490280001+042002640004+043635240001+144637200005+145786680006+147842640005+148931640006+150987600005+152076600006+154132560001+154797840005+155221560006+157277520005+158366520006+160422480005+161571960006+163627920005+164716920006+166772880005+167861880006+169917840005+171006840006+173062800005+174151800006+176207760005+177296760006+179352720005+180502200006+182558160005+183647160006+185703120005+186792120006+188848080005+189937080006+191993040005+193082040006+195138000005+196287480006+198343440005+199432440006+201488400005+202577400006+204633360005+205722360006+207778320005+208867320006+210923280005+212012280006+214068240005"],
    [tt |-> "-23820+00000LMT  -25200+00000MST  -21600+00000CST  -21600+03600MDT  -18000+03600CDT  -18000+03600CWT  ",
     at |-> "-151473960002-134314920003-123480720002-122046120004-120715920002-119134440003-097526160005-096316920003-091711440005-090735480003-082190160006-081006840003-062750160005-061299000003+082886400005+084639960003+086031360005+087784920003+089176320005+090929880003+092321280005+094135320003+095466240005+097280280003+098913600005+100183320003+101816640005+103570200003+104961600005+106715160003+108106560005+109920600003+111251520005+113065560003+114396480005+116210520003+117541440005+119355480003+120746880005+122500440003+123891840005+125645400003+127036800005+128850840003+130181760005+131995800003+133326720005+135140760003+136532160005+138285720003+139677120005+141430680003+142822080005+144575640003+145967040005+147781080003+149112000005+150926040003+152256960005+154071000003+155462400005+157215960003+158607360005+160360920003+161752320005+163566360003+164897280005+166711320003"],
    [tt |-> "-13500+00000LMT  -14400+00000AST  -10800+00000-03  -07200+03600-02  ",
     at |-> "-184765052002+032600160003+054459720004+056213280003+057604680004+059418720003+060749640004+062563680003+063894600004+065708640003+067100040004+068853600003+070245000004+071998560003+073389960004+075204000003+076534920004+078348960003+079679880004+081493920003+082885320004+084638880003+086030280004+087783840003+089175240004+090928800003+092320200004+094134240003+095465160004+097279200003+098610120004+100424160003+101815560004+103569120003+104960520004+106714080003+108105480004+109919520003+111250440004+113064480003+114395400004+116209440003+117358920004+119414880003+120503880004+122559840003+123648840004+125704800003+126854280004+128910240003+129999240004+132055200003+133144200004+135200160003+136289160004+138345120003+139434120004+141490080003+142579080004+144635040003+145784520004+147840480003+148929480004+150985440003+152074440004+154130400003+155219400004+157275360003+158364360004+160420320003+161569800004+163625760003+164714760004+166770720003+167859720004+169915680003+171004680004+173060640003+174149640004+176205600003+177294600004+179350560003+180500040004+182556000003+183645000004+185700960003+186789960004+188845920003+189934920004+191990880003+193079880004+195135840003+196285320004+198341280003+199430280004+201486240003+202575240004+204631200003+205720200004+207776160003+208865160004+210921120003+212010120004+214066080003+214748364703"],
    [tt |-> "-18000+00000EST  -14400+00000AST  -10800+03600ADT  -10800+03600AWT  -10800+03600APT  ",
     at |-> "-213164280002-163207440003-161514360002-115368120003-114582240002-112223160003-111437280002-109078200003-108292320002-105933240003-105147360002-102788280003-102002400002-099643320003-098857440002-096567480003-095539680002-093474360003-092394720002-090450360003-089189280002-088022160004-076939560005-076539960002-074725200003-073395000002-071580240003-070250040002-068435280003-067105080002-065290320003-063960120002-062084880003-060815160002-058939920003-057609720002-055794960003-054464760002-052650000003-051319800002-049505040003-048174840002-046360080003-045029880002-043154640003-041824440002-040009680003-038437560002-036864720003-035292600002-033719760003-032147640002-030574800003-028942200002-027369360003-025797240002-024224400003-022652280002-021079440003-019507320002-017934480003-016362360002-014789520003-013156920002-011644560003-010011960002-008439120003-006867000002-005294160003-003722040002-002149200003-000577080002+000995760003+002567880002+004140720003+005773320002+007346160003+008918280002+013636080003+015208200002+016781040003+018353160002+019926000003+021558600002+023070960003+024703560002+026276400003+027848520002+029421360003+030993480002+032566320003+034138440002+035711280003+037283400002+038856240003+040488840002+042001200003+043633800002+045206640003+046778760002+048351600003+049923720002+051496560003+053068680002+054460080003+056213640002+057605040003+059419080002+060750000003+062564040002+063894960003+065709000002+067100400003+068853960002+070245360003+071998920002+073389606003+075203646002+076534566003+078348606002+079679526003+081493566002+082884966003+084638526002+086029926003+087783486002+089174886003+090928446002+092319846003+094133886002+095464806003+097278846002+098609766003+100423806002+101815206003+103568766002+104960166003+106713726002+108105126003+109919166002+111250086003+113064126002+114395046003+116209086002+117359280003+119415240002+120504240003+122560200002+123649200003+125705160002+126854640003+128910600002+129999600003+132055560002+133144560003+135200520002+136289520003+138345480002+139434480003+141490440002+142579440003+144635400002+145784880003+147840840002+148929840003+150985800002+152074800003+154130760002+155219760003+157275720002+158364720003+160420680002+161570160003+163626120002+164715120003+166771080002+167860080003+169916040002+171005040003+173061000002+174150000003+176205960002+177294960003+179350920002+180500400003+182556360002+183645360003+185701320002+186790320003+188846280002+189935280003+191991240002+193080240003+195136200002+196285680003+198341640002+199430640003+201486600002+202575600003+204631560002+205720560003+207776520002+208865520003+210921480002+212010480003+214066440002"],
    [tt |-> "-24060+00000LMT  -25200+00000MST  -21600+00000CST  -21600+03600MDT  -18000+03600CDT  ",
     at |-> "-151474320002-134314920003-123480720002-122046120004-120715920002-119134440003+057605760005+059419800003+082886400005+084639960003+086031360005+087784920003+089176320005+090929880003+092321280005+094135320003+095466240005+097280280003+098913600005+100183320003+101816640005+103570200003+104961600005+106715160003+108106560005+109920600003+111251520005+113065560003+114396480005+116210520003+117541440005+119355480003+120746880005+122500440003+123891840005+125645400003+127036800005+128850840003+130181760005+131995800003+133326720005+135140760003+136532160005+138285720003+139677120005+141430680003+142822080005+144575640003+145967040005+147781080003+149112000005+150926040003+152256960005+154071000003+155462400005+157215960003+158607360005+160360920003+161752320005+163566360003+164897280005+166711320003"],
    [tt |-> "-13500+00000LMT  -13500+00000MMT  -14400+00000-04  -10800+03600-03  -12600+00000-0330-10800+01800-03  -09000+03600-0230-10800+00000-03  -09000+01800-0230-07200+03600-02  -05400+05400-0130",
     at |-> "-194269050902-156745530903-145962720004-144381960005-142800660006-141228360005-139647060006-138074760005-114159060006-112828680005-111014100006-109683720005-107869140006-106538760005-104724180006-103393800005-101518740006-100248840005-098373780006-097103880005-095470740006-093898440005-092083860006-090753480005-089681940006-085362120007-084584700008-033478920009-031967100008-031422600010-030999600008-014972040010-013460400008-005044680009-003420540008+000986040010+001417680008+007284600010+008010000008+012727800011+013211100009+014723460008+015691320010+016537680008+021981240010+022646160008+025005240010+025791120008+028271160010+028936080008+029420280010+032202000008+056644920010+057301200008+059781240010+060506640008+062563320010+063591120008+065647800010+066796560008+068853240010+069941520008+071937720010+073086480008+109556280010+111189600008+112883400010+114213600008+115967880010+117358560008+119173320010+120503520008+122318280010+123648480008+125463240010+126853920008+128608200010+129998880008+131753160010+133143840008+134958600010+136288800008+138103560010+139433760008+141248520010+142578720008+214748364708"],
    [tt |-> "-18000+00000EST  -14400+03600EDT  -14400+03600EWT  -14400+03600EPT  ",
     at |-> "-163207080002-161514000001-160175340002-158369760001-156735720002-155466720001-153469800002-152407440001-150324840002-149236560001-147179880002-146091600001-144095400002-142886160001-140950440002-139741200001-137805480002-136596240001-134660520002-133390800001-131515560002-130185360001-128370600002-127040400001-125225640002-123895440001-122080680002-120750480001-118875240002-117605520001-115730280002-114400080001-112585320002-111255120001-109440360002-108110160001-106295400002-104965200001-103150440002-101820240001-100005480002-098675280001-096800040002-095530320001-093655080002-088021800003-076939560004-076539600001-074724840002-073394640001-071579880002-070249680001-068434920002-067104720001-065289960002-063415440001-062084520002-060270480001-058939560002-057609360001-055794600002-054464400001-052649640002-051319440001-049504680002-048174480001-046359720002-045029520001-043154280002-041824080001-040009320002-038437200001-036864360002-035292240001-033719400002-032147280001-030574440002-028941840001-027369000002-025796880001-024224040002-022651920001-021079080002-019506960001-017934120002-016362000001-014789160002-013156560001-011644200002-010011600001-008438760002-006866640001-005293800002-003721680001-002148840002-000576720001+000996120002+002568240001+004141080002+005773680001+007346520002+008918640001+010491480002+012063600001+013636440002+015208560001+016781400002+018353520001+019926360002+021558960001+023071320002+024703920001+026276760002+027848880001+029421720002+030993840001+032566680002+034138800001+035711640002+037283760001+038856600002+040489200001+042001560002+043634160001+045207000002+046779120001+048351960002+049924080001+051496920002+053069040001+054460440002+056214000001+057605400002+059419440001+060750360002+062564400001+063895320002+065709360001+067100760002+068854320001+070245720002+071999280001+073390680002+075204720001+076535640002+078349680001+079680600002+081494640001+082886040002+084639600001+086031000002+087784560001+089175960002+090929520001+092320920002+094134960001+095465880002+097279920001+098610840002+100424880001+101816280002+103569840001+104961240002+106714800001+108106200002+109920240001+111251160002+113065200001+114396120002+116210160001+117359640002+119415600001+120504600002+122560560001+123649560002+125705520001+126855000002+128910960001+129999960002+132055920001+133144920002+135200880001+136289880002+138345840001+139434840002+141490800001+142579800002+144635760001+145785240002+147841200001+148930200002+150986160001+152075160002+154131120001+155220120002+157276080001+158365080002+160421040001+161570520002+163626480001+164715480002+166771440001+167860440002+169916400001+171005400002+173061360001+174150360002+176206320001+177295320002+179351280001+180500760002+182556720001+183645720002+185701680001+186790680002+188846640001+189935640002+191991600001+193080600002+195136560001+196286040002+198342000001+199431000002+201486960001+202575960002+204631920001+205720920002+207776880001+208865880002+210921840001+212010840002+214066800001"],
    [tt |-> "-14940+00000LMT  -14400+00000AST  ",
     at |-> "-184626660802"],
    [tt |-> "-18540+00000LMT  -18000+00000EST  -14400+03600EWT  -14400+03600EPT  -14400+03600EDT  ",
     at |-> "-182509503002-087314040003-078890400002-078622200003-076939560004-076384800002-017934120005-016362000002-014789160005-013156560002-011644200005-010011600002-008438760005-006866640002-005293800005-003721680002-002148840005-000576720002+000996120005+002568240002+004141080005+005773680002+007346520005+008918640002+010491480005+012063600002+013636440005+015208560002+016781400005+018353520002+019926360005+021558960002+023071320005+024703920002+026276760005+027848880002+029421720005+030993840002+032566680005+034138800002+035711640005+037283760002+038856600005+040489200002+042001560005+043634160002+045207000005+046779120002+048351960005+049924080002+051496920005+053069040002+054460440005+056214000002+057605400005+059419440002+060750360005+062564400002+063895320005+065709360002+067100760005+068854320002+070245720005+071999280002+073390680005+075204720002+076535640005+078349680002+079680600005+081494640002+082886040005+084639600002+086031000005+087784560002+089175960005+090929520002+092320920005+094134960002+095465880005+097279920002+098610840005+100424880002+101816280005+103569840002+104961240005+106714800002+108106200005+109920240002+111251160005+113065200002+114396120005+116210160002+117359640005+119415600002+120504600005+122560560002+123649560005+125705520002+126855000005+128910960002+129999960005+132055920002+133144920005+135200880002+136289880005+138345840002+139434840005+141490800002+142579800005+144635760002+145785240005+147841200002+148930200005+150986160002+152075160005+154131120002+155220120005+157276080002+158365080005+160421040002+161570520005+163626480002+164715480005+166771440002+167860440005+169916400002+171005400005+173061360002+174150360005+176206320002+177295320005+179351280002+180500760005+182556720002+183645720005+185701680002+186790680005+188846640002+189935640005+191991600002+193080600005+195136560002+196286040005+198342000002+199431000005+201486960002+202575960005+204631920002+205720920005+207776880002+208865880005+210921840002+212010840005+214066800002"],
    [tt |-> "-18000+00000EST  -14400+03600EDT  -14400+03600EWT  -14400+03600EPT  ",
     at |-> "-163328040002-161514000001-160183080002-158369040001-157038120002-155163600001-153651240002-152321040001-150445800002-149176080001-147300840002-145970640001-144155880002-142825680001-141010920002-139680720001-137865960002-136535760001-134721000002-133390800001-131515560002-130185360001-128370600002-127040400001-125225640002-123895440001-122080680002-120750480001-118935720002-117605520001-115730280002-114460560001-112585320002-111255120001-109440360002-108110160001-106295400002-104965200001-103150440002-101820240001-100005480002-098675280001-096800040002-095530320001-093655080002-092324880001-090510120002-089179920001-088021800003-076939560004-076539600001-074724840002-073394640001-071579880002-070249680001-068434920002-067104720001-065289960002-063959760001-062084520002-060814800001-058939560002-057609360001-055794600002-054464400001-052649640002-051319440001-049504680002-048174480001-046359720002-044727120001-043154280002-041582160001-040009320002-038437200001-036864360002-035292240001-033719400002-032147280001-030574440002-028941840001-027369000002-025796880001-024224040002-022651920001-021079080002-019506960001-017934120002-016362000001-014789160002-013156560001-011644200002-010011600001-008438760002-006866640001-005293800002-003721680001-002148840002-000576720001+000996120002+002568240001+004141080002+005773680001+007346520002+008918640001+010491480002+012063600001+012668760002+015208560001+016237080002+018353520001+019926360002+021558960001+023071320002+024703920001+026276760002+027848880001+029421720002+030993840001+032566680002+034138800001+035711640002+037283760001+038856600002+040489200001+042001560002+043634160001+045207000002+046779120001+048351960002+049924080001+051496920002+053069040001+054460440002+056214000001+057605400002+059419440001+060750360002+062564400001+063895320002+065709360001+067100760002+068854320001+070245720002+071999280001+073390680002+075204720001+076535640002+078349680001+079680600002+081494640001+082886040002+084639600001+086031000002+087784560001+089175960002+090929520001+092320920002+094134960001+095465880002+097279920001+098610840002+100424880001+101816280002+103569840001+104961240002+106714800001+108106200002+109920240001+111251160002+113065200001+114396120002+116210160001+117359640002+119415600001+120504600002+122560560001+123649560002+125705520001+126855000002+128910960001+129999960002+132055920001+133144920002+135200880001+136289880002+138345840001+139434840002+141490800001+142579800002+144635760001+145785240002+147841200001+148930200002+150986160001+152075160002+154131120001+155220120002+157276080001+158365080002+160421040001+161570520002+163626480001+164715480002+166771440001+167860440002+169916400001+171005400002+173061360001+174150360002+176206320001+177295320002+179351280001+180500760002+182556720001+183645720002+185701680001+186790680002+188846640001+189935640002+191991600001+193080600002+195136560001+196286040002+198342000001+199431000002+201486960001+202575960002+204631920001+205720920002+207776880001+208865880002+210921840001+212010840002+214066800001"],
    [tt |-> "-39600+00000NST  -36000+03600NWT  -36000+03600NPT  -39600+00000BST  -36000+03600BDT  -32400+00000YST  -32400+00000AKST -28800+03600AKDT ",
     at |-> "-088019640002-076939560003-076537440001-008687880004-002146680005-000574560004+000998280005+002570400004+004143240005+005775840004+007348680005+008920800004+010493640005+012065760004+012670920005+015210720004+016239240005+018355680004+019928520005+021561120004+023073480005+024706080004+026278920005+027851040004+029423880005+030996000004+032568840005+034140960004+035713800005+037285920004+038858760005+040491360004+042003720005+043636320006+043903080007+045208440008+046780560007+048353400008+049925520007+051498360008+053070480007+054461880008+056215440007+057606840008+059420880007+060751800008+062565840007+063896760008+065710800007+067102200008+068855760007+070247160008+072000720007+073392120008+075206160007+076537080008+078351120007+079682040008+081496080007+082887480008+084641040007+086032440008+087786000007+089177400008+090930960007+092322360008+094136400007+095467320008+097281360007+098612280008+100426320007+101817720008+103571280007+104962680008+106716240007+108107640008+109921680007+111252600008+113066640007+114397560008+116211600007+117361080008+119417040007+120506040008+122562000007+123651000008+125706960007+126856440008+128912400007+130001400008+132057360007+133146360008+135202320007+136291320008+138347280007+139436280008+141492240007+142581240008+144637200007+145786680008+147842640007+148931640008+150987600007+152076600008+154132560007+155221560008+157277520007+158366520008+160422480007+161571960008+163627920007+164716920008+166772880007+167861880008+169917840007+171006840008+173062800007+174151800008+176207760007+177296760008+179352720007+180502200008+182558160007+183647160008+185703120007+186792120008+188848080007+189937080008+191993040007+193082040008+195138000007+196287480008+198343440007+199432440008+201488400007+202577400008+204633360007+205722360008+207778320007+208867320008+210923280007+212012280008+214068240007"],
    [tt |-> "-07800+00000LMT  -07200+00000-02  -03600+03600-01  ",
     at |-> "-176721782002-120696120003-119136600002-117537840003-115983000002-063382320003-062207280002-060228720003-059183640002-057075120003-056021400002-053912880003-053135640002-019136880003-018420120002-015516720003-015007320002-012890160003-012112920002-009995760003-008959320002-006842160003-005797080002+049974480003+051123240002+053058960003+054026280002+056212560003+057119400002+059297040003+060203880002+062442000003+063469800002+093891600003+095161320002+097097040003+097157160002+100302480003+101390760002+214748364702"],
    [tt |-> "-25200+00000MST  -21600+03600MDT  -21600+03600MWT  -21600+03600MPT  -21600+00000CST  -18000+03600CDT  ",
     at |-> "-163327320002-161513280001-160182360002-158368320001-088021080003-076939560004-076538880001-008438040002-006865920001-005293080002-003720960001-002148120002-000576000001+000996840002+002568960001+004141800002+005774400001+007347240002+008919360001+010492200002+012064320001+012669480002+015209280001+016237800002+018354240001+019927080002+021559680001+023072040002+024704640001+026277480002+027849600001+029422440002+030994560001+032567400002+034139520001+035712360002+037284480001+038857320002+040489920001+042002280002+043634880001+045207720002+046779840001+048352680002+049924800001+051497640002+053069760001+054461160002+056214720001+057606120002+059420160001+060751080002+062565120001+063896040002+065710080001+067101480002+068855040001+070246440002+072000000001+073391400002+075205440001+076536360002+078350400001+079681320002+081495360001+082886760002+084640320001+086031720002+087785280001+089176680002+090930240001+092321640002+094135680001+095466600002+097280640001+098611560002+100425600001+101817000002+103570560001+104961960002+106715520001+108106920002+109920960001+111251880002+113065920001+114396840002+116210880001+117360360002+119416320001+120505320002+122561280001+123650280002+125706240001+126855720002+128911680005+130000320006+132056280005+133145280006+135201240005+136290240006+138346200005+139435200006+141491160005+142580160006+144636120005+145785600006+147841560005+148930560006+150986520005+152075520006+154131480005+155220480006+157276440005+158365440006+160421400005+161570880006+163626840005+164715840006+166771800005+167860800006+169916760005+171005760006+173061720005+174150720006+176206680005+177295680006+179351640005+180501120006+182557080005+183646080006+185702040005+186791040006+188847000005+189936000006+191991960005+193080960006+195136920005+196286400006+198342360005+199431360006+201487320005+202576320006+204632280005+205721280006+207777240005+208866240006+210922200005+212011200006+214067160005"],
    [tt |-> "-25200+00000MST  -21600+03600MDT  -21600+03600MWT  -21600+03600MPT  -21600+00000CST  -18000+03600CDT  ",
     at |-> "-163327320002-161513280001-160182360002-158368320001-088021080003-076939560004-076538880001-008438040002-006865920001-005293080002-003720960001-002148120002-000576000001+000996840002+002568960001+004141800002+005774400001+007347240002+008919360001+010492200002+012064320001+012669480002+015209280001+016237800002+018354240001+019927080002+021559680001+023072040002+024704640001+026277480002+027849600001+029422440002+030994560001+032567400002+034139520001+035712360002+037284480001+038857320002+040489920001+042002280002+043634880001+045207720002+046779840001+048352680002+049924800001+051497640002+053069760001+054461160002+056214720001+057606120002+059420160001+060751080002+062565120001+063896040002+065710080001+067101480002+068855040001+070246440002+072000000005+073391040006+075205080005+076536000006+078350040005+079680960006+081495000005+082886400006+084639960005+086031360006+087784920005+089176320006+090929880005+092321280006+094135320005+095466240006+097280280005+098611200006+100425240005+101816640006+103570200005+104961600006+106715160005+108106560006+109920600005+111251520006+113065560005+114396480006+116210520005+117360000006+119415960005+120504960006+122560920005+123649920006+125705880005+126855360006+128911320005+130000320006+132056280005+133145280006+135201240005+136290240006+138346200005+139435200006+141491160005+142580160006+144636120005+145785600006+147841560005+148930560006+150986520005+152075520006+154131480005+155220480006+157276440005+158365440006+160421400005+161570880006+163626840005+164715840006+166771800005+167860800006+169916760005+171005760006+173061720005+174150720006+176206680005+177295680006+179351640005+180501120006+182557080005+183646080006+185702040005+186791040006+188847000005+189936000006+191991960005+193080960006+195136920005+196286400006+198342360005+199431360006+201487320005+202576320006+204632280005+205721280006+207777240005+208866240006+210922200005+212011200006+214067160005"],
    [tt |-> "-25200+00000MST  -21600+03600MDT  -21600+03600MWT  -21600+03600MPT  -21600+00000CST  -18000+03600CDT  ",
     at |-> "-163327320002-161513280001-160182360002-158368320001-088021080003-076939560004-076538880001-008438040002-006865920001-005293080002-003720960001-002148120002-000576000001+000996840002+002568960001+004141800002+005774400001+007347240002+008919360001+010492200002+012064320001+012669480002+015209280001+016237800002+018354240001+019927080002+021559680001+023072040002+024704640001+026277480002+027849600001+029422440002+030994560001+032567400002+034139520001+035712360002+037284480001+038857320002+040489920001+042002280002+043634880001+045207720002+046779840001+048352680002+049924800001+051497640002+053069760001+054461160002+056214720001+057606120002+059420160001+060751080002+062565120001+063896040002+065710080001+067101480002+068855040001+070246440002+072000000001+073391400002+075205440001+076536360002+078350400001+079681320002+081495360001+082886760002+084640320001+086031720002+087785280001+089176680002+090930240001+092321640002+094135680001+095466600002+097280640001+098611560002+100425600001+101817000002+103570560001+104961960002+106715520005+108106560006+109920600005+111251520006+113065560005+114396480006+116210520005+117360000006+119415960005+120504960006+122560920005+123649920006+125705880005+126855360006+128911320005+130000320006+132056280005+133145280006+135201240005+136290240006+138346200005+139435200006+141491160005+142580160006+144636120005+145785600006+147841560005+148930560006+150986520005+152075520006+154131480005+155220480006+157276440005+158365440006+160421400005+161570880006+163626840005+164715840006+166771800005+167860800006+169916760005+171005760006+173061720005+174150720006+176206680005+177295680006+179351640005+180501120006+182557080005+183646080006+185702040005+186791040006+188847000005+189936000006+191991960005+193080960006+195136920005+196286400006+198342360005+199431360006+201487320005+202576320006+204632280005+205721280006+207777240005+208866240006+210922200005+212011200006+214067160005"],
    [tt |-> "-25080+00000LMT  -25200+00000MST  -21600+00000CST  -21600+03600MDT  -18000+03600CDT  ",
     at |-> "-151473960002-134314920003-123480720002-122046120004-120715920002-119134440003+082886400005+084639960003+086031360005+087784920003+089176680004+090930240002+092321640004+094135680002+095466600004+097280640002+098913960004+100183680002+101817000004+103570560002+104961960004+106715520002+108106920004+109920960002+111251880004+113065920002+114396840004+116210880002+117541800004+119355840002+120747240004+122500800002+123892200004+125645760002+126855720004+128911680002+130000680004+132056640002+133145640004+135201600002+136290600004+138346560002+139435560004+141491520002+142580520004+144636480002+145785960004+147841920002+148930920004+150986880002+152075880004+154131840002+155220840004+157276800002+158365800004+160421760002+161571240004+163627200002+164716200004+166711680003+167860800005+169916760003+171005760005+173061720003+174150720005+176206680003+177295680005+179351640003+180501120005+182557080003+183646080005+185702040003+186791040005+188847000003+189936000005+191991960003+193080960005+195136920003+196286400005+198342360003+199431360005+201487320003+202576320005+204632280003+205721280005+207777240003+208866240005+210922200003+212011200005+214067160003"],
    [tt |-> "-13260+00000LMT  -13260+00000PMT  -12600+00000-0330-10800+00000-03  ",
     at |-> "-186190676002-110452434802-076531796403+046544940004+214748364704"],
    [tt |-> "-25200+00000MST  -21600+03600MDT  -21600+03600MWT  ",
     at |-> "-163327320002-161513280001-160182360002-158368320001-088021080003-082051914001-081265314003-079684554001-008438040002-006865920001"],
    [tt |-> "-17340+00000PPMT -18000+00000EST  -14400+03600EDT  ",
     at |-> "-167048346002+042121800003+043633440002+045206280003+046778400002+048351240003+049923360002+051496200003+053068320002+054641160003+056213280002+057605040003+059419440002+060750000003+062564400002+063894960003+065709360002+067100400003+068854320002+070245360003+071999280002+073390320003+075204720002+076535280003+078349680002+079680240003+081494640002+082885680003+084639600002+086030640003+087784560002+111250440003+113064480002+114395400003+116209440002+133144920003+135200880002+136289880003+138345840002+139434840003+141490800002+142579800003+144635760002+148930200003+150986160002+152075160003+154131120002+155220120003+157276080002+158365080003+160421040002+161570520003+163626480002+164715480003+166771440002+167860440003+169916400002+171005400003+173061360002+174150360003+176206320002+177295320003+179351280002+180500760003+182556720002+183645720003+185701680002+186790680003+188846640002+189935640003+191991600002+193080600003+195136560002+196286040003+198342000002+199431000003+201486960002+202575960003+204631920002+205720920003+207776880002+208865880003+210921840002+212010840003+214066800002"],
    [tt |-> "-14760+00000LMT  -14400+00000AST  ",
     at |-> "-182509883602"],
    [tt |-> "-16260+00000LMT  -18000+00000-05  -14400+03600-04  -14400+00000-04  ",
     at |-> "-176720932802-120695040003-119135520002-117536760003-115981920002-063381240003-062206200002-060227640003-059182560002-057074040003-056020320002-053911800003-053134560002-019135800003-018419040002-015515640003-015006240002-012889080003-012111840002-009994680003-008958240002-006841080003-005796000002+049975560003+051124320002+053060040003+054027360002+056213640003+057120480002+121428360004+138405600002+214748364702"],
    [tt |-> "-15360+00000LMT  -14400+00000-04  -10800+03600-03  ",
     at |-> "-176721026402-120695400003-119135880002-117537120003-115982280002-063381600003-062206560002-060228000003-059182920002-057074400003-056020680002-053912160003-053134920002-019136160003-018419400002-015516000003-015006600002-012889440003-012112200002-009995040003-008958600002-006841440003-005796360002+049975200003+051123960002+053059680003+054027000002+056213280003+057120120002+214748364702"],
    [tt |-> "-16980+00000SMT  -18000+00000-05  -14400+00000-04  -14400+02580-04  -14400+03600-04  -10800+03600-03  -10800+00000-03  ",
     at |-> "-189266143502-168841080001-161920543503-159380640001-133598623504-131758560002-130436280005-128604960002-127282680005-125451360002-124129080005-122297760002-120975480005-119135520002-117813240003-087055200002-086527800003-073663200005-071805600002-071364960003-003661920006-002392200003-000335520006+000752760003+002446560006+003776760003+005591520006+006921720003+008796960006+010066680003+011820960006+013211640003+015086880006+016356600003+018231840006+019562040003+021376800006+022707000003+024521760006+025851960003+027727200006+028996920003+030872160006+032141880003+034017120006+035347320003+037162080006+038492280003+040307040006+041637240003+043452000006+044782200003+046657440006+047927160003+049802400006+051072120003+052947360006+054519480003+056092320006+057422520003+059237280006+060567480003+062442720006+063712440003+065345760006+066857400003+068732640006+070062840003+071877600006+073207800003+075022560006+076352760003+078167520006+079497720003+081372960006+082642680003+084517920006+085969080003+087662880006+088993080003+090686880006+092319480003+093952800006+095283000003+097158240006+098427960003+100303200006+101572920003+103448160006+104717880003+106593120006+107923320003+109738080006+111068280003+112883040006+114213240003+116088480006+117358200003+119233440006+120684600003+122378400006+123708600003+125523360006+127035000003+128668320006+130482360003+131389920006+133566840003+134655840006+136711800003+137861280006+139856760003+141006240006+146328120003+147114720006+148082040007+214748364707"],
    [tt |-> "-21600+00000CST  -18000+03600CDT  -18000+03600CWT  -18000+03600CPT  ",
     at |-> "-169436880002-168167160001-163206720002-161513640001-102968640002-101819880001-088021440003-076939560004-076539240001-074603520002-073273320001-071579520002-070249320001-068434560002-067104360001-065289600002-063959400001-062075520002-060762600001-058939200002-057609000001-055794240002-054464040001-052649280002-051319080001-049504320002-048174120001-046359360002-045029160001-043153920002-041823720001-040008960002-038678760001-036864000002-035533800001-033719040002-032146920001-030574080002-029243880001-021078720002-019809000001-011643840002-010010880001-008438400002-006865920001-005293440002-003720960001-002148480002-000576000001+000996480002+002568960001+004141440002+005774400001+007346880002+008919360001+010491840002+012064320001+013636800002+015209280001+016781760002+018354240001+019926720002+021559680001+023071680002+024704640001+026277120002+027849600001+029422080002+030994560001+032567040002+034139520001+035712000002+037284480001+038856960002+040489920001+042001920002+043634880001+045207360002+046779840001+048352320002+049924800001+051497280002+053069760001+054460800002+056214720001+057605760002+059420160001+060750720002+062565120001+063895680002+065710080001+067101120002+068855040001+070246080002+072000000001+073391040002+075205440001+076536000002+078350400001+079680960002+081495360001+082886400002+084640320001+086031360002+087785280001+089176320002+090930240001+092321280002+094135680001+095466240002+097280640001+098611200002+100425600001+101816640002+103570560001+104961600002+106715520001+108106560002+109920960001+111251520002+113065920001+114396480002+116210520001+117360000002+119415960001+120504960002+122560920001+123649920002+125705880001+126855360002+128911320001+130000320002+132056280001+133145280002+135201240001+136290240002+138346200001+139435200002+141491160001+142580160002+144636120001+145785600002+147841560001+148930560002+150986520001+152075520002+154131480001+155220480002+157276440001+158365440002+160421400001+161570880002+163626840001+164715840002+166771800001+167860800002+169916760001+171005760002+173061720001+174150720002+176206680001+177295680002+179351640001+180501120002+182557080001+183646080002+185702040001+186791040002+188847000001+189936000002+191991960001+193080960002+195136920001+196286400002+198342360001+199431360002+201487320001+202576320002+204632280001+205721280002+207777240001+208866240002+210922200001+212011200002+214067160001"],
    [tt |-> "+00000+00000-00  -21600+00000CST  -18000+03600CDT  -18000+00000EST  ",
     at |-> "-041022720002+007346880003+008919000002+010491840003+012063960002+013636800003+015208920002+016781760003+018353880002+019926720003+021559320002+023071680003+024704280002+026277120003+027849240002+029422080003+030994200002+032567040003+034139160002+035712000003+037284120002+038856960003+040489560002+042001920003+043634520002+045207360003+046779480002+048352320003+049924440002+051497280003+053069400002+054460800003+056214360002+057605760003+059419800002+060750720003+062564760002+063895680003+065709720002+067101120003+068854680002+070246080003+071999640002+073391040003+075205080002+076536000003+078350040002+079680960003+081495000002+082886400003+084639960002+086031360003+087784920002+089176320003+090929880002+092321280003+094135320002+095466240003+097280280004+098611200003+100425240002+101816640003+103570200002+104961600003+106715160002+108106560003+109920600002+111251520003+113065560002+114396480003+116210520002+117360000003+119415960002+120504960003+122560920002+123649920003+125705880002+126855360003+128911320002+130000320003+132056280002+133145280003+135201240002+136290240003+138346200002+139435200003+141491160002+142580160003+144636120002+145785600003+147841560002+148930560003+150986520002+152075520003+154131480002+155220480003+157276440002+158365440003+160421400002+161570880003+163626840002+164715840003+166771800002+167860800003+169916760002+171005760003+173061720002+174150720003+176206680002+177295680003+179351640002+180501120003+182557080002+183646080003+185702040002+186791040003+188847000002+189936000003+191991960002+193080960003+195136920002+196286400003+198342360002+199431360003+201487320002+202576320003+204632280002+205721280003+207777240002+208866240003+210922200002+212011200003+214067160002"],
    [tt |-> "-08400+00000LMT  -10800+00000-03  -07200+03600-02  ",
     at |-> "-176721722402-120695760003-119136240002-117537480003-115982640002-063381960003-062206920002-060228360003-059183280002-057074760003-056021040002-053912520003-053135280002-019136520003-018419760002-015516360003-015006960002-012889800003-012112560002-009995400003-008958960002-006841800003-005796720002+049974840003+051123600002+053059320003+054026640002+056212920003+057119760002+059297400003+060204240002+062442360003+063470160002+093891960003+095161680002+097097400003+097157520002+100302840003+101391120002+214748364702"],
    [tt |-> "-25140+00000LMT  -25200+00000MST  -21600+03600MDT  -21600+03600MWT  -21600+03600MPT  -21600+00000CST  ",
     at |-> "-203020208402-163206360003-161513280002-125165160003-123834960002-122020200003-120690000002-118875240003-117545040002-115669800003-114400080002-112524840003-111194640002-103271400003-101699280002-100126440003-098614800002-096981480003-095409360002-093776040003-092203920002-090631080003-089058960002-088021080004-076939560005-076538880002-074845080003-073272960002-071579160003-070248960002-068434200003-067104000002-065289240003-063959040002-062083800003-060814080002-058938840003-057608640002-055793880003-054463680002-052648920003-051318720002-049503960003-048173760002-046359000003-045028800002-043153560003-041823360002-040008600003-038678400002-033718680003-032146560002-030573720006"],
    [tt |-> "+00000+00000-00  -21600+00000CST  -18000+03600CDT  -18000+00000EST  ",
     at |-> "-070493760002+007346880003+008919000002+010491840003+012063960002+013636800003+015208920002+016781760003+018353880002+019926720003+021559320002+023071680003+024704280002+026277120003+027849240002+029422080003+030994200002+032567040003+034139160002+035712000003+037284120002+038856960003+040489560002+042001920003+043634520002+045207360003+046779480002+048352320003+049924440002+051497280003+053069400002+054460800003+056214360002+057605760003+059419800002+060750720003+062564760002+063895680003+065709720002+067101120003+068854680002+070246080003+071999640002+073391040003+075205080002+076536000003+078350040002+079680960003+081495000002+082886400003+084639960002+086031360003+087784920002+089176320003+090929880002+092321280003+094135320002+095466240003+097280280004+098611200003+100425240002+101816640003+103570200002+104961600003+106715160002+108106560003+109920600002+111251520003+113065560002+114396480003+116210520004+117360000003+119415960002+120504960003+122560920002+123649920003+125705880002+126855360003+128911320002+130000320003+132056280002+133145280003+135201240002+136290240003+138346200002+139435200003+141491160002+142580160003+144636120002+145785600003+147841560002+148930560003+150986520002+152075520003+154131480002+155220480003+157276440002+158365440003+160421400002+161570880003+163626840002+164715840003+166771800002+167860800003+169916760002+171005760003+173061720002+174150720003+176206680002+177295680003+179351640002+180501120003+182557080002+183646080003+185702040002+186791040003+188847000002+189936000003+191991960002+193080960003+195136920002+196286400003+198342360002+199431360003+201487320002+202576320003+204632280002+205721280003+207777240002+208866240003+210922200002+212011200003+214067160002"],
    [tt |-> "-13140+00000LMT  -14400+00000-04  -10800+03600-03  -10800+00000-03  ",
     at |-> "-176721247202-120695400003-119135880002-117537120003-115982280002-063381600003-062206560002-060228000003-059182920002-057074400003-056020680002-053912160003-053134920002-019136160003-018419400002-015516000003-015006600002-012889440003-012112200002-009995040003-008958600002-006841440003-005796360002+049975200003+051123960002+053059680003+054027000002+056213280003+057120120002+121428000004+214748364704"],
    [tt |-> "-16980+00000SMT  -18000+00000-05  -14400+00000-04  -14400+02580-04  -14400+03600-04  -10800+03600-03  ",
     at |-> "-189266143502-168841080001-161920543503-159380640001-133598623504-131758560002-130436280005-128604960002-127282680005-125451360002-124129080005-122297760002-120975480005-119135520002-117813240003-087055200002-086527800003-074052000006-073663560005-071805600002-071364960003-003661920006-002392200003-000335520006+000752760003+002446560006+003776760003+005591520006+006921720003+008796960006+010066680003+011820960006+013211640003+015086880006+016356600003+018231840006+019562040003+021376800006+022707000003+024521760006+025851960003+027727200006+028996920003+030872160006+032141880003+034017120006+035347320003+037162080006+038492280003+040307040006+041637240003+043452000006+044782200003+046657440006+047927160003+049802400006+051072120003+052947360006+054519480003+056092320006+057422520003+059237280006+060567480003+062442720006+063712440003+065345760006+066857400003+068732640006+070062840003+071877600006+073207800003+075022560006+076352760003+078167520006+079497720003+081372960006+082642680003+084517920006+085969080003+087662880006+088993080003+090686880006+092319480003+093952800006+095283000003+097158240006+098427960003+100303200006+101572920003+103448160006+104717880003+106593120006+107923320003+109738080006+111068280003+112883040006+114213240003+116088480006+117358200003+119233440006+120684600003+122378400006+123708600003+125523360006+127035000003+128668320006+130482360003+131389920006+133566840003+134655840006+136711800003+137861280006+139856760003+141006240006+146328120003+147114720006+149473080003+150259680006+152618040003+153404640006+155460600003+156791520006+158605560003+159936480006+161750520003+163081440006+164895480003+166286880006+168040440003+169371360006+171245880003+172576800006+174390840003+175721760006+177535800003+178866720006+180680760003+182011680006+183825720003+185156640006+187031160003+188301600006+190176120003+191507040006+193321080003+194652000006+196466040003+197796960006+199611000003+200941920006+202755960003+204086880006+205961400003+207231840006+209106360003+210437280006+212251320003+213582240006+214748364706"],
    [tt |-> "-16800+00000SDMT -18000+00000EST  -14400+03600EDT  -16200+01800-0430-14400+00000AST  ",
     at |-> "-115977360002-010011960003-008966880002-000577080004+000442260002+002567880004+003319380002+005773320004+006481620002+008918280004+009643860002+012063240004+012797460002+015208200005+097279920002+097582320005"],
    [tt |-> "-11160+00000LMT  -10800+00000-03  -07200+03600-02  ",
     at |-> "-176721441202-120695760003-119136240002-117537480003-115982640002-063381960003-062206920002-060228360003-059183280002-057074760003-056021040002-053912520003-053135280002-019542600003-018419760002-015516360003-015006960002-012889800003-012112560002-009995400003-008958960002-006841800003-005796720002+049974840003+051123600002+053059320003+054026640002+056212920003+057119760002+059297400003+060204240002+062442360003+063470160002+065647800003+066675600002+068792760003+069760080002+071998200003+072844560002+075082680003+076170960002+078227640003+079315920002+081372600003+082400400002+084457080003+085605840002+087610680003+088871760002+090807480003+091956240002+093891960003+095161680002+097097400003+098246160002+100302840003+101391120002+103629240003+104536080002+106653240003+107681040002+109936440003+110886480002+112943160003+114031440002+116269560003+117236880002+119233080003+120321360002+122438520003+123466320002+125583480003+126671760002+128728440003+129816720002+131873400003+133022160002+135078840003+136106640002+138223800003+139251600002+141368760003+142457040002+144513720003+145602000002+147658680003+148746960002+150803640003+151891920002+154130040003+155036880002+214748364702"],
    [tt |-> "-05280+00000LMT  -07200+00000-02  -03600+03600-01  +00000+07200+00  -03600+00000-01  +00000+03600+00  ",
     at |-> "-168609072802+032384160003+033896160002+035467920004+037040040005+038612520006+040185000005+041757480006+043329960005+044902440006+046535400005+048107880006+049680360005+051252840006+052825320005+054397800006+055970280005+057542760006+059115240005+060687720006+062260200005+063832680006+065465640005+067038120006+068610600005+070183080006+071755560005+073328040006+074900520005+076473000006+078045480005+079617960006+081190440005+082823400006+084637800005+085968360006+087782760005+089113320006+090927720005+092258280006+094133160005+095403240006+097278120005+098548200006+100423080005+101753640006+103568040005+104898600006+106713000005+108043560006+109918440005+111188520006+113063400005+114333480006+116208360005+117478440006+119353320005+120683880006+122498280005+123828840006+125643240005+126973800006+128848680005+130118760006+131993640005+133263720006+135138600005+136469160006+138283560005+139614120006+141428520005+142759080006+144573480005+145904040006+147778920005+149049000006+150923880005+152193960006+154068840005+155399400006+157213800005+158544360006+160358760005+161689320006+163564200005+164834280006+166709160005+167979240006+169854120005+171184680003+172999080002+174329640003+176144040002+177474600003+179289000002+180619560003+182494440002+183764520003+185639400002+186909480003+188784360002+190114920003+191929320002+193259880003+195074280002+196404840003+198279720002+199549800003+201424680002+202694760003+204569640002+205839720003+207714600002+209045160003+210859560002+212190120003+214004520002+214748364702"],
    [tt |-> "-28800+00000PST  -25200+03600PWT  -25200+03600PPT  -25200+03600PDT  -32400+00000YST  -32400+00000AKST -28800+03600AKDT ",
     at |-> "-088020720002-076939560003-076538520001-002147760004-000575640001+000997200004+002569320001+004142160004+005774760001+007347600004+008919720001+010492560004+012064680001+012669840004+015209640001+016238160004+018354600001+019927440004+021560040001+023072400004+024705000001+026277840004+027849960001+029422800004+030994920001+032567760004+034139880001+035712720004+037284840001+038857680004+040490280001+042002640004+043635240005+043903080006+045208440007+046780560006+048353400007+049925520006+051498360007+053070480006+054461880007+056215440006+057606840007+059420880006+060751800007+062565840006+063896760007+065710800006+067102200007+068855760006+070247160007+072000720006+073392120007+075206160006+076537080007+078351120006+079682040007+081496080006+082887480007+084641040006+086032440007+087786000006+089177400007+090930960006+092322360007+094136400006+095467320007+097281360006+098612280007+100426320006+101817720007+103571280006+104962680007+106716240006+108107640007+109921680006+111252600007+113066640006+114397560007+116211600006+117361080007+119417040006+120506040007+122562000006+123651000007+125706960006+126856440007+128912400006+130001400007+132057360006+133146360007+135202320006+136291320007+138347280006+139436280007+141492240006+142581240007+144637200006+145786680007+147842640006+148931640007+150987600006+152076600007+154132560006+155221560007+157277520006+158366520007+160422480006+161571960007+163627920006+164716920007+166772880006+167861880007+169917840006+171006840007+173062800006+174151800007+176207760006+177296760007+179352720006+180502200007+182558160006+183647160007+185703120006+186792120007+188848080006+189937080007+191993040006+193082040007+195138000006+196287480007+198343440006+199432440007+201488400006+202577400007+204633360006+205722360007+207778320006+208867320007+210923280006+212012280007+214068240006"],
    [tt |-> "-12660+00000NST  -09060+03600NDT  -12600+00000NST  -09000+03600NDT  -09000+03600NWT  -09000+03600NPT  -05400+07200NDDT ",
     at |-> "-166413054802-165013734801-163207614802-161514534801-159865014802-159010014801-156728694802-155156574801-153583734802-152011614801-150378294802-148866654801-147233334802-145721694801-144088374802-142576734801-140943414802-139431774801-137798454802-136226334801-134653494802-133081374801-131448054802-129936414801-128303094802-126791454801-125158134802-123646494801-122013174802-120501534801-118868214802-117296094801-115662774802-114151134801-112517814802-111006174801-109692174803-109372860004-107861220003-106167060004-104897340003-103022100004-101752380003-099877140004-098607420003-096671700004-095462460003-093526740004-092257020003-090381780004-089112060003-087236820005-076939560006-076540140003-074604420004-073334700003-071459460004-070189740003-068314500004-067044780003-065169540004-063899820003-061964100004-060694380003-058940100004-057609900003-055795140004-054464940003-052650180004-051319980003-049505220004-048175020003-046360260004-045030060003-043154820004-041824620003-040009860004-038679660003-036864900004-035534700003-033719940004-032389740003-030574980004-028942380003-027369540004-025797420003-024224580004-022652460003-021079620004-019507500003-017934660004-016362540003-014789700004-013157100003-011644740004-010012140003-008439300004-006867180003-005294340004-003722220003-002149380004-000577260003+000995580004+002567700003+004140540004+005773140003+007345980004+008918100003+010490940004+012063060003+013635900004+015208020003+016780860004+018352980003+019925820004+021558420003+023070780004+024703380003+026276220004+027848340003+029421180004+030993300003+032566140004+034138260003+035711100004+037283220003+038856060004+040488660003+042001020004+043633620003+045206460004+046778580003+048351420004+049923540003+051496380004+053068500003+054459186004+056212746003+057604146007+059417826003+060749106004+062563146003+063894066004+065708106003+067099506004+068853066003+070244466004+071998026003+073389426004+075203466003+076534386004+078348426003+079679346004+081493386003+082884786004+084638346003+086029746004+087783306003+089174706004+090928266003+092319666004+094133706003+095464626004+097278666003+098609586004+100423626003+101815026004+103568586003+104959986004+106713546003+108104946004+109918986003+111249906004+113063946003+114394866004+116208906003+117358386004+119414346003+120503346004+122559306003+123648306004+125704266003+126853746004+128909706003+129998706004+132055380003+133144380004+135200340003+136289340004+138345300003+139434300004+141490260003+142579260004+144635220003+145784700004+147840660003+148929660004+150985620003+152074620004+154130580003+155219580004+157275540003+158364540004+160420500003+161569980004+163625940003+164714940004+166770900003+167859900004+169915860003+171004860004+173060820003+174149820004+176205780003+177294780004+179350740003+180500220004+182556180003+183645180004+185701140003+186790140004+188846100003+189935100004+191991060003+193080060004+195136020003+196285500004+198341460003+199430460004+201486420003+202575420004+204631380003+205720380004+207776340003+208865340004+210921300003+212010300004+214066260003"],
    [tt |-> "-15060+00000LMT  -14400+00000AST  ",
     at |-> "-182509854802"],
    [tt |-> "-14640+00000CMT  -14400+00000AST  ",
     at |-> "-183036936002"],
    [tt |-> "-15600+00000LMT  -14400+00000AST  ",
     at |-> "-184626601602"],
    [tt |-> "-14700+00000KMT  -14400+00000AST  ",
     at |-> "-183036930402"],
    [tt |-> "-25860+00000LMT  -25200+00000MST  -21600+03600MDT  -21600+03600MWT  -21600+03600MPT  -21600+00000CST  ",
     at |-> "-203020132002-163206360003-161513280002-088021080004-076939560005-076538880002-074724120003-073272960002-071579160003-070248960002-068434200003-067104000002-065289240003-063959040002-040008600003-038436480002-033718680003-032146560002-030573720003-029243520002-027368280003-026098560002+007347240006"],
    [tt |-> "-20940+00000LMT  -21600+00000CST  -18000+03600CDT  ",
     at |-> "-153850386802+054702000003+055971720002+057846960003+059116680002+114698160003+115492680002"],
    [tt |-> "-16500+00000LMT  -14400+00000AST  -10800+03600ADT  ",
     at |-> "-168607949202+067039920003+068612040002+070184880003+071757000002+073390320003+075204360002+076535280003+078349320002+079680240003+081494280002+082885680003+084639240002+086030640003+087784200002+089175600003+090929160002+092320560003+094134600002+095465520003+097279560002+098610480003+100424520002+101815920003+103569480002+104960880003+106714440002+108105840003+109919880002+111250800003+113064840002+114395760003+116209800002+117359280003+119415240002+120504240003+122560200002+123649200003+125705160002+126854640003+128910600002+129999600003+132055560002+133144560003+135200520002+136289520003+138345480002+139434480003+141490440002+142579440003+144635400002+145784880003+147840840002+148929840003+150985800002+152074800003+154130760002+155219760003+157275720002+158364720003+160420680002+161570160003+163626120002+164715120003+166771080002+167860080003+169916040002+171005040003+173061000002+174150000003+176205960002+177294960003+179350920002+180500400003+182556360002+183645360003+185701320002+186790320003+188846280002+189935280003+191991240002+193080240003+195136200002+196285680003+198341640002+199430640003+201486600002+202575600003+204631560002+205720560003+207776520002+208865520003+210921480002+212010480003+214066440002"],
    [tt |-> "-15480+00000LMT  -14400+00000AST  ",
     at |-> "-184626609202"],
    [tt |-> "-28800+00000PST  -25200+03600PDT  -25200+03600PWT  -25200+03600PPT  ",
     at |-> "-163206000002-161512920001-088020720003-076939560004-076538520001-074723760002-073393560001-071578800002-070248600001-068433840002-067103640001-065288880002-063958680001-062083440002-060813720001-058938480002-057608280001-055793520002-054463320001-052648560002-051318360001-049503600002-048173400001-046358640002-045028440001-043153200002-041823000001-040008240002-038678040001-036863280002-035533080001-033718320002-032388120001-030573360002-029243160001-027367920002-026098200001-024222960002-022650840001-021078000002-019505880001-017933040002-016360920001-014788080002-013155480001-011643120002-010010520001-008437680002-006865560001-005292720002-003720600001-002147760002-000575640001+000997200002+002569320001+004142160002+005774760001+007347600002+008919720001+010492560002+012064680001+013637520002+015209640001+016782480002+018354600001+019927440002+021560040001+023072400002+024705000001+026277840002+027849960001+029422800002+030994920001+032567760002+034139880001+035712720002+037284840001+038857680002+040490280001+042002640002+043635240001+045208080002+046780200001+048353040002+049925160001+051498000002+053070120001+054461520002+056215080001+057606480002+059420520001+060751440002+062565480001+063896400002+065710440001+067101840002+068855400001+070246800002+072000360001+073391760002+075205800001+076536720002+078350760001+079681680002+081495720001+082887120002+084640680001+086032080002+087785640001+089177040002+090930600001+092322000002+094136040001+095466960002+097281000001+098611920002+100425960001+101817360002+103570920001+104962320002+106715880001+108107280002+109921320001+111252240002+113066280001+114397200002+116211240001+117360720002+119416680001+120505680002+122561640001+123650640002+125706600001+126856080002+128912040001+130001040002+132057000001+133146000002+135201960001+136290960002+138346920001+139435920002+141491880001+142580880002+144636840001+145786320002+147842280001+148931280002+150987240001+152076240002+154132200001+155221200002+157277160001+158366160002+160422120001+161571600002+163627560001+164716560002+166772520001+167861520002+169917480001+171006480002+173062440001+174151440002+176207400001+177296400002+179352360001+180501840002+182557800001+183646800002+185702760001+186791760002+188847720001+189936720002+191992680001+193081680002+195137640001+196287120002+198343080001+199432080002+201488040001+202577040002+204633000001+205722000002+207777960001+208866960002+210922920001+212011920002+214067880001"],
    [tt |-> "-32400+00000YST  -28800+03600YDT  -28800+03600YWT  -28800+03600YPT  -25200+07200YDDT -28800+00000PST  -25200+03600PDT  -25200+00000MST  ",
     at |-> "-163205640002-161512560001-159697800002-158316480001-088020360003-076939560004-076538160001-014788440005-013155480001-012127320006+032567760007+034139880006+035712720007+037284840006+038857680007+040490280006+042002640007+043635240006+045208080007+046780200006+048353040007+049925160006+051498000007+053070120006+054461520007+056215080006+057606480007+059420520006+060751440007+062565480006+063896400007+065710440006+067101840007+068855400006+070246800007+072000360006+073391760007+075205800006+076536720007+078350760006+079681680007+081495720006+082887120007+084640680006+086032080007+087785640006+089177040007+090930600006+092322000007+094136040006+095466960007+097281000006+098611920007+100425960006+101817360007+103570920006+104962320007+106715880006+108107280007+109921320006+111252240007+113066280006+114397200007+116211240006+117360720007+119416680006+120505680007+122561640006+123650640007+125706600006+126856080007+128912040006+130001040007+132057000006+133146000007+135201960006+136290960007+138346920006+139435920007+141491880006+142580880007+144636840006+145786320007+147842280006+148931280007+150987240006+152076240007+154132200006+155221200007+157277160006+158366160007+160421400008"],
    [tt |-> "-32400+00000YST  -28800+03600YWT  -28800+03600YPT  -28800+03600YDT  -32400+00000AKST -28800+03600AKDT ",
     at |-> "-088020360002-076939560003-076538160001-002147400004-000575280001+000997560004+002569680001+004142520004+005775120001+007347960004+008920080001+010492920004+012065040001+012670200004+015210000001+016238520004+018354960001+019927800004+021560400001+023072760004+024705360001+026278200004+027850320001+029423160004+030995280001+032568120004+034140240001+035713080004+037285200001+038858040004+040490640001+042003000004+043635600001+043903080005+045208440006+046780560005+048353400006+049925520005+051498360006+053070480005+054461880006+056215440005+057606840006+059420880005+060751800006+062565840005+063896760006+065710800005+067102200006+068855760005+070247160006+072000720005+073392120006+075206160005+076537080006+078351120005+079682040006+081496080005+082887480006+084641040005+086032440006+087786000005+089177400006+090930960005+092322360006+094136400005+095467320006+097281360005+098612280006+100426320005+101817720006+103571280005+104962680006+106716240005+108107640006+109921680005+111252600006+113066640005+114397560006+116211600005+117361080006+119417040005+120506040006+122562000005+123651000006+125706960005+126856440006+128912400005+130001400006+132057360005+133146360006+135202320005+136291320006+138347280005+139436280006+141492240005+142581240006+144637200005+145786680006+147842640005+148931640006+150987600005+152076600006+154132560005+155221560006+157277520005+158366520006+160422480005+161571960006+163627920005+164716920006+166772880005+167861880006+169917840005+171006840006+173062800005+174151800006+176207760005+177296760006+179352720005+180502200006+182558160005+183647160006+185703120005+186792120006+188848080005+189937080006+191993040005+193082040006+195138000005+196287480006+198343440005+199432440006+201488400005+202577400006+204633360005+205722360006+207778320005+208867320006+210923280005+212012280006+214068240005"],
    [tt |-> "+00000+00000-00  +28800+00000+08  +39600+00000+11  ",
     at |-> "-003153600002+125580240003+126771480002+131973840003+132984360002+147706560003+152070120002+153885600003+155275200002+157012920003+158359680002+160174086003+161564040002+163319046003+164709000002+166464006003+167829120002+214748364702"],
    [tt |-> "+00000+00000-00  +25200+00000+07  +18000+00000+05  ",
     at |-> "-040919040002-016306200001-002885760002+125580600003+126825120002+131974200003+132985440002+214748364702"],
    [tt |-> "+00000+00000-00  +36000+00000+10  ",
     at |-> "-072584640002-056699280001-041549760002+214748364702"],
    [tt |-> "+36000+00000AEST +39600+03600AEDT +00000+00000-00  ",
     at |-> "-168050880002-166538880001-160171920003-068705280001-007113600002-005541120001-003726720002-002577600001-000581760002+000567360001+002563200002+003772800001+005768640002+006796800001+008913600002+010002240001+012058560002+013147200001+015203520002+016292160001+018348480002+019497600001+021553920002+022642560001+024698880002+025787520001+027843840002+028932480001+030988800002+032077440001+034133760002+035222400001+037278720002+038609280001+040484160002+041754240001+043629120002+044717760001+046774080002+047862720001+049919040002+051007680001+053003520002+054273600001+056208960002+057479040001+059414400002+060624000001+062559360002+063768960001+065704320002+067034880001+068667840002+070179840001+071812800002+073324800001+074957760002+076469760001+078102720002+079614720001+081247680002+082820160001+084453120002+085965120001+087598080002+089110080001+090743040002+092255040001+093888000002+095400000001+096730560002+098544960001+100238400002+101750400001+103383360002+104895360001+106528320002+108040320001+109673280002+111185280001+112818240002+114390720001+115963200002+117475200001+119168640002+120741120001+122313600002+123886080001+125458560002+130176000001+131748480002+133320960001+134953920002+136526400001+138098880002+139671360001+141243840002+142816320001+144388800002+145961280001+147533760002+149106240001+150678720002+152251200001+153884160002+155456640001+157029120002+158601600001+160174080002+161746560001+163319040002+164891520001+166464000002+168036480001+169608960002+171241920001+172814400002+174386880001+175959360002+177531840001+179104320002+180676800001+182249280002+183821760001+185394240002+186966720001+188599680002+190172160001+191744640002+193317120001+194889600002+196462080001+198034560002+199607040001+201179520002+202752000001+204324480002+205896960001+207529920002+209102400001+210674880002+212247360001+213819840002"],
    [tt |-> "+00000+00000-00  +21600+00000+06  +18000+00000+05  ",
     at |-> "-050120640002+125580960003+214748364703"],
    [tt |-> "+00000+00000-00  +43200+00000NZST +46800+03600NZDT ",
     at |-> "-044184960002+015263280003+016230960002+018347760003+019496880002+021553200003+022641840002+024698160003+025786800002+027843120003+028931760002+030988080003+032076720002+034133040003+035221680002+037278000003+038427120002+040483440003+041572080002+043628400003+044717040002+046773360003+047862000002+049918320003+051006960002+053063280003+054151920002+056208240003+057357360002+059413680003+060502320002+062377200003+063768240002+065522160003+066913200002+068667120003+070058160002+071812080003+073263600002+074957040003+076408560002+078102000003+079553520002+081246960003+082698480002+084452400003+085843440002+087597360003+088988400002+090742320003+092193840002+093887280003+095338800002+097032240003+098483760002+100237680003+101628720002+103382640003+104773680002+106527600003+107979120002+109672560003+111124080002+112817520003+114269040002+115962480003+117414000002+119107440003+120740400002+122252400003+123885360002+125397360003+127030320002+128542320003+130175280002+131687280003+133320240002+134892720003+136525680002+138037680003+139670640002+141182640003+142815600002+144327600003+145960560002+147472560003+149105520002+150617520003+152250480002+153822960003+155455920002+156967920003+158600880002+160112880003+161745840002+163257840003+164890800002+166402800003+168035760002+169547760003+171241200002+172753200003+174386160002+175898160003+177531120002+179043120003+180676080002+182188080003+183821040002+185333040003+186966000002+188538480003+190171440002+191683440003+193316400002+194828400003+196461360002+197973360003+199606320002+201118320003+202751280002+204263280003+205896240002+207468720003+209101680002+210613680003+212246640002+213758640003"],
    [tt |-> "+00000+00000-00  -10800+03600-03  -14400+00000-04  -10800+00000-03  -07200+03600-02  ",
     at |-> "-015776640002-015265800003-013295520002-012112200003-010141920002-008682120003-007109280002-005476680003-003903840002-002331720003-000758880004+012814200005+013660560004+038907000003+040307040002+041637240003+043452000002+044782200003+046657440002+047927160003+049802400002+051072120003+052947360002+054519480003+056092320002+057422520003+059237280002+060567480003+062442720002+063712440003+065345760002+066857400003+068732640002+070062840003+071877600002+073207800003+075022560002+076352760003+078167520002+079497720003+081372960002+082642680003+084517920002+085969080003+087662880002+088993080003+090686880002+092319480003+093952800002+095283000003+097158240002+098427960003+100303200002+101572920003+103448160002+104717880003+106593120002+107923320003+109738080002+111068280003+112883040002+114213240003+116088480002+117358200003+119233440002+120684600003+122378400002+123708600003+125523360002+127035000003+128668320002+130482360003+131389920002+133566840003+134655840002+136711800003+137861280002+139856760003+141006240002+146328120003+147114720002+148082040004+214748364704"],
    [tt |-> "+00000+00000-00  -10800+00000-03  ",
     at |-> "+021824640002+214748364702"],
    [tt |-> "+41400+00000NZMT +45000+03600NZST +43200+01800NZST +43200+00000NZST +46800+03600NZDT ",
     at |-> "-133033500002-132005700001-130069980003-128739600001-126925020003-125594640001-123780060003-122449680001-120635100003-119244240001-117490140003-116099280001-114345180003-112591440001-111260700003-109446480001-108115740003-106301520001-104970780003-103156560001-101825820003-100011600001-098680860003-096806160001-095535900003-093661200001-092330460003-075742560004+015263280005+016230960004+018347760005+019496880004+021553200005+022641840004+024698160005+025786800004+027843120005+028931760004+030988080005+032076720004+034133040005+035221680004+037278000005+038427120004+040483440005+041572080004+043628400005+044717040004+046773360005+047862000004+049918320005+051006960004+053063280005+054151920004+056208240005+057357360004+059413680005+060502320004+062377200005+063768240004+065522160005+066913200004+068667120005+070058160004+071812080005+073263600004+074957040005+076408560004+078102000005+079553520004+081246960005+082698480004+084452400005+085843440004+087597360005+088988400004+090742320005+092193840004+093887280005+095338800004+097032240005+098483760004+100237680005+101628720004+103382640005+104773680004+106527600005+107979120004+109672560005+111124080004+112817520005+114269040004+115962480005+117414000004+119107440005+120740400004+122252400005+123885360004+125397360005+127030320004+128542320005+130175280004+131687280005+133320240004+134892720005+136525680004+138037680005+139670640004+141182640005+142815600004+144327600005+145960560004+147472560005+149105520004+150617520005+152250480004+153822960005+155455920004+156967920005+158600880004+160112880005+161745840004+163257840005+164890800004+166402800005+168035760004+169547760005+171241200004+172753200005+174386160004+175898160005+177531120004+179043120005+180676080004+182188080005+183821040004+185333040005+186966000004+188538480005+190171440004+191683440005+193316400004+194828400005+196461360004+197973360005+199606320004+201118320005+202751280004+204263280005+205896240004+207468720005+209101680004+210613680005+212246640004+213758640005"],
    [tt |-> "+00000+00000-00  +10800+00000+03  ",
     at |-> "-040780800002+214748364702"],
    [tt |-> "+00000+00000-00  +00000+00000+00  +07200+07200+02  ",
     at |-> "+110816640002+111188520003+113063400002+114333480003+116208360002+117478440003+119353320002+120683880003+122498280002+123828840003+125643240002+126973800003+128848680002+130118760003+131993640002+133263720003+135138600002+136469160003+138283560002+139614120003+141428520002+142759080003+144573480002+145904040003+147778920002+149049000003+150923880002+152193960003+154068840002+155399400003+157213800002+158544360003+160358760002+161689320003+163564200002+164834280003+166709160002+167979240003+169854120002+171184680003+172999080002+174329640003+176144040002+177474600003+179289000002+180619560003+182494440002+183764520003+185639400002+186909480003+188784360002+190114920003+191929320002+193259880003+195074280002+196404840003+198279720002+199549800003+201424680002+202694760003+204569640002+205839720003+207714600002+209045160003+210859560002+212190120003+214004520002+214748364702"],
    [tt |-> "+00000+00000-00  +25200+00000+07  +18000+00000+05  ",
     at |-> "-038007360002+076003560001+078364800002+170283960003+214748364703"],
    [tt |-> "+03600+00000CET  +07200+03600CEST +10800+07200CEMT ",
     at |-> "-169370640002-168048360001-166345560002-165015000001-163200600002-161870040001-093890520002-085725720001-084455640002-082822680001-081250200002-079677720001-078105240002-077656320003-076593600002-076118040001-074847960002-073327320001-071763120002-071461080003-071038080002-070191000001-068497560002-067046040001-065413080002-063901080001+032383080002+033895080001+035467560002+037040040001+038612520002+040185000001+041757480002+043329960001+044902440002+046535400001+048107880002+049680360001+051252840002+052825320001+054397800002+055970280001+057542760002+059115240001+060687720002+062260200001+063832680002+065465640001+067038120002+068610600001+070183080002+071755560001+073328040002+074900520001+076473000002+078045480001+079617960002+081190440001+082823400002+084637800001+085968360002+087782760001+089113320002+090927720001+092258280002+094133160001+095403240002+097278120001+098548200002+100423080001+101753640002+103568040001+104898600002+106713000001+108043560002+109918440001+111188520002+113063400001+114333480002+116208360001+117478440002+119353320001+120683880002+122498280001+123828840002+125643240001+126973800002+128848680001+130118760002+131993640001+133263720002+135138600001+136469160002+138283560001+139614120002+141428520001+142759080002+144573480001+145904040002+147778920001+149049000002+150923880001+152193960002+154068840001+155399400002+157213800001+158544360002+160358760001+161689320002+163564200001+164834280002+166709160001+167979240002+169854120001+171184680002+172999080001+174329640002+176144040001+177474600002+179289000001+180619560002+182494440001+183764520002+185639400001+186909480002+188784360001+190114920002+191929320001+193259880002+195074280001+196404840002+198279720001+199549800002+201424680001+202694760002+204569640001+205839720002+207714600001+209045160002+210859560001+212190120002+214004520001"],
    [tt |-> "+10800+00000LMT  +10800+00000+03  ",
     at |-> "-063116279402+214748364702"],
    [tt |-> "+18480+00000LMT  +18000+00000+05  +21600+00000+06  +25200+03600+07  +21600+03600+06  ",
     at |-> "-144117046802-124754760003+035490960004+037071720003+038644560004+040225320003+041798160004+043378920003+044960400004+046533600003+048106080004+049678560003+051251040004+052823520003+054396000004+055968480003+057540960004+059113440003+060685920004+062258400003+063830880004+065463840003+067036320005+068609160002+069576840003+070181280004+071753760003+073326240004+074898720003+076471200004+078043680003+079616160004+081188640003+082821600004+084636000003+085966560004+087780960003+089111520004+090925920003+092256480004+094131360003+095401440004+097276320003+098546400004+100421280003+101751840004+103566240003+104896800004+106711200003+108041760004+109916640003+170922960002+214748364702"],
    [tt |-> "+08640+00000LMT  +07200+00000EET  +10800+03600EEST +10800+00000+03  ",
     at |-> "-123077662402+010816560003+011827080002+013659120003+014980680002+016812720003+018134280002+019974960003+021564360002+023128560003+024450120002+026273520003+027595080002+048115440003+049696200002+051294960003+052867080002+054439920003+056012040002+057584880003+059217480002+061058160003+062362440002+064116720003+065507400002+067183920003+068591880002+070285680003+071797320002+073370160003+074942280002+076515120003+077966280002+079720560003+081111600002+082865520003+084317040002+086010480003+087462000002+089155440003+090606960002+093078000003+093812400002+095436720003+097017840002+098581680003+100162800002+101735280003+103307760002+104880240003+106694640002+108025200003+109779120002+111230640003+112803120002+114375600003+116190000002+117520560003+119334960002+120665520003+122540400002+123810480003+125685360002+126955440003+128830320002+130160880003+131975280002+133305840003+138748680002+139595760003+141470640002+142740720003+144615600002+145946160003+147760560002+149091120003+150905520002+152236080003+154050480002+155381040003+157195440002+158526000003+160400880002+161670960003+163545840002+164574000003+166690800004+214748364704"],
    [tt |-> "+42600+00000LMT  +43200+00000+12  +46800+00000+13  +50400+03600+14  +46800+03600+13  +43200+03600+12  +39600+00000+11  ",
     at |-> "-144119459602-124757280003+035488440004+037069200003+038642040005+040223160002+041796000005+043376760002+044958240005+046531440002+048103920005+049676400002+051248880005+052821360002+054393840005+055966320002+057538800005+059111280002+060683760005+062256240002+063828720005+065461680002+067034160006+068607000007+069574680002+070179120005+071751600002+073324080005+074896560002+076469040005+078041520002+079614000005+081186480002+082819440005+084633840002+085964400005+087778800002+089109360005+090923760002+092254320005+094129200002+095399280005+097274160002+098544240005+100419120002+101749680005+103564080002+104894640005+106709040002+108039600005+109914480002+111184560005+113059440002+114329520005+116204400002+117474480005+119349360002+120679920005+122494320002+123824880005+125639280002+126969840006+128845080007+130115160002+214748364702"],
    [tt |-> "+12060+00000LMT  +14400+00000+04  +18000+00000+05  +21600+00000+06  +21600+03600+06  +18000+03600+05  ",
     at |-> "-144116406402-124754400003+037072440004+038644560005+040225680003+041798520005+043379280003+044960760005+046533960003+048106440005+049678920003+051251400005+052823880003+054396360005+055968840003+057541320005+059113800003+060686280005+062258760003+063831240005+065464200003+067036680006+068609520002+069577200003+070181640005+071754120003+073326600005+074899080003+076471560005+078044040002+079616880006+081189360002+082822320006+084636720002+085967280006+087781680002+089112240006+090926640002+092257200006+094132080002+095402160006+097277040002+098547120006+100422000002+101752560006+103566960002+104897520006+106711920002+108042480006+109917360003+214748364703"],
    [tt |-> "+13740+00000LMT  +14400+00000+04  +18000+00000+05  +21600+03600+06  +21600+00000+06  +18000+03600+05  ",
     at |-> "-144116572002-124754400003+035491320004+037072080005+038644560004+040225680003+041798520004+043379280003+044960760004+046533960003+048106440004+049678920003+051251400004+052823880003+054396360004+055968840003+057541320004+059113800003+060686280004+062258760003+063831240004+065464200003+067036680006+068609520002+069577200003+070181640004+071754120003+073326600004+074899080003+076471560004+078044040003+079616520004+081189000003+082821960004+084636360003+085966920004+087781320003+089111880004+090926280003+092256840004+094131720003+095401800004+097276680003+098546760004+100421640003+101752200004+103566600003+104897160004+106711560003+108042120004+109917000003+214748364703"],
    [tt |-> "+14040+00000LMT  +14400+00000+04  +18000+00000+05  +21600+03600+06  +18000+03600+05  ",
     at |-> "-144116601202-124754400003+035491320004+037072080003+038644920004+040225680003+041798520004+043379280003+044960760004+046533960003+048106440004+049678920003+051251400004+052823880003+054396360004+055968840003+057541320004+059113800003+060686280004+062258760003+063831240004+065464200003+067036680005+068609520002+069577200003+214748364703"],
    [tt |-> "+12480+00000LMT  +10800+00000+03  +18000+00000+05  +21600+00000+06  +21600+03600+06  +18000+03600+05  +14400+00000+04  ",
     at |-> "-144116446402-124754040003+037072440004+038644560005+040225680003+041798520005+043379280003+044960760005+046533960003+048106440005+049678920003+051251400005+052823880003+054396360005+055968840003+057541320005+059113800003+060686280005+062258760003+063831240005+065464200003+067036680006+068609520007+069577200003+070181640005+071754120003+073326600005+074899080003+076471560005+078044040003+079616520005+081189000003+082821960005+084636360003+085966920005+087781320003+089111880005+090926280003+092256840006+094132080007+095402160006+097277040007+098547120006+100422000007+101752560006+103566960007+104897520006+106711920007+108042480006+109917360003+214748364703"],
    [tt |-> "+10680+00000BMT  +10800+00000+03  +14400+03600+04  ",
     at |-> "-164100585602+038904840003+040226400002+041790600003+043380000002+044961480003+046542240002+048115080003+049679280002+051251760003+052824240002+054396720003+055969200002+057541680003+059114160002+060686640003+062259120002+063831600003+065464560002+067046400003+068627520002+070208640003+071789760002+073362240003+074943360002+076515840003+078096960002+079669440003+081250560002+082831680003+084412800002+085985280003+087566400002+089138880003+090720000002+092292480003+093873600002+095454720003+097035840002+098608320003+100189440002+101761920003+103343040002+104915520003+106496640002+108077760003+109658880002+111231360003+112812480002+114384960003+115966080002+117538560003+119119680002+214748364702"],
    [tt |-> "+12120+00000LMT  +12600+00000+0330+14400+00000+04  +10800+00000+03  ",
     at |-> "-089788094002-082055340003+007619040004+214748364704"],
    [tt |-> "+11940+00000LMT  +10800+00000+03  +14400+00000+04  +18000+03600+05  +14400+03600+04  ",
     at |-> "-144116396402-040514040003+035491680004+037072440003+038645280004+040226040003+041798880004+043379640003+044961120004+046534320003+048106800004+049679280003+051251760004+052824240003+054396720004+055969200003+057541680004+059114160003+060686640004+062259120003+063831600004+065464560003+067037040005+068609880002+070182360005+071754840003+082823400004+084637800003+085968000004+087782400003+089112960004+090927360003+092257920004+094132800003+095402880004+097277760003+098547840004+100422720003+101753280004+103567680003+104898240004+106712640003+108043200004+109918080003+111188160004+113063040003+114333120004+116208000003+117478080004+119352960003+120683520004+122497920003+123828480004+125642880003+126973440004+128848320003+130118400004+131993280003+133263360004+135138240003+136468800004+138283200003+139613760004+141428160003+142758720004+144573120003+214748364703"],
    [tt |-> "+24120+00000BMT  +25200+00000+07  ",
     at |-> "-157008492402+214748364702"],
    [tt |-> "+20100+00000LMT  +21600+00000+06  +25200+00000+07  +28800+03600+08  +25200+03600+07  ",
     at |-> "-157984410002-124755120003+035490600004+037071360003+038644200004+040224960003+041797800004+043378560003+044960040004+046533240003+048105720004+049678200003+051250680004+052823160003+054395640004+055968120003+057540600004+059113080003+060685560004+062258040003+063830520004+065463480003+067035960005+068608800002+069576480003+070180920004+071753400003+073325880004+074898360003+076470840004+078043320003+079615800004+080159040005+081188640002+082821600005+084636000002+085966560005+087780960002+089111520005+090925920002+092256480005+094131360002+095401440005+097276320002+098546400005+100421280002+101751840005+103566240002+104896800005+106711200002+108041760005+109916640002+111186720005+113061600002+114331680005+116206560002+117476640005+119351520002+120682080005+122496480002+123827040005+125641440002+126972000005+128846880002+130116960003+141426360002+145902240003+214748364703"],
    [tt |-> "+07200+00000EET  +10800+03600EEST ",
     at |-> "-157041360002-155218680001-153835920002-152255160001-150751440002-149058360001-147364560002-146094840001-039986640002-038665080001-036833040002-035511480001-033679440002-032357880001-030517200002-029195640001-027363600002-026042040001+007801200002+008673480001+010505520002+011827080001+013659120002+014980680001+016812720002+018134280001+019974960002+021296520001+023128560002+024450120001+026273520002+027595080001+045221040002+046672200001+048374640002+049825800001+051528240002+052979400001+054681840002+056133000001+058111920002+059295240001+061075440002+062448840001+064151280002+065602440001+067304880002+068756040001+070467120002+071814600001+073326960002+074899080001+076471920002+078044040001+079616880002+081189000001+082822320002+084394440001+085967280002+087539400001+089112240002+090684360001+092257200002+094131720001+095402160002+097276680001+098547120002+100421640001+101752560002+103566600001+104897520002+106711560001+108042480002+109917000001+111187440002+113061960001+114332400002+116206920001+117477360002+119351880001+120682800002+122496840001+123827760002+125641800001+126972720002+128847240001+130117680002+131992200001+133262640002+135137160001+136468080002+138282120001+139613040002+141427080001+142758000002+144572040001+145902960002+147777480001+149047920002+150922440001+152192880002+154067400001+155398320002+157212360001+158543280002+160357320001+161688240002+163562760001+164833200002+166707720001+167978160002+169852680001+171183600002+172997640001+174328560002+176142600001+177473520002+179287560001+180618480002+182493000001+183763440002+185637960001+186908400002+188782920001+190113840002+191927880001+193258800002+195072840001+196403760002+198278280001+199548720002+201423240001+202693680002+204568200001+205838640002+207713160001+209044080002+210858120001+212189040002+214003080001"],
    [tt |-> "+17880+00000LMT  +18000+00000+05  +21600+00000+06  +25200+03600+07  +21600+03600+06  ",
     at |-> "-144116990402-124754760003+035490960004+037071720003+038644560004+040225320003+041798160004+043378920003+044960400004+046533600003+048106080004+049678560003+051251040004+052823520003+054396000004+055968480003+057540960004+059113440003+060685920004+062258400003+063830880004+065463840003+067036320005+068358240002+070301880005+071753040002+073446840005+074898000002+076591800005+078042960002+079736760005+081187920002+082881720005+084393360002+085967100005+087781140002+089112060005+090926100002+092257020005+094131540002+095401980005+097276500002+098546940005+100421460002+101752380005+103566420002+104897340005+106711380002+108042300005+109916820002+111187260005+112378320003+214748364703"],
    [tt |-> "+27600+00000LMT  +27000+00000+0730+28800+00000+08  ",
     at |-> "-138346438002-116763660003+214748364703"],
    [tt |-> "+19260+00000MMT  +19800+00000IST  +23400+03600+0630",
     at |-> "-201970567002-089158140003-087205860002-086263740003-076414500002"],
    [tt |-> "+27240+00000LMT  +28800+00000+08  +32400+00000+09  +36000+03600+10  +32400+03600+09  +36000+00000+10  ",
     at |-> "-157941923202-124755840003+035489880004+037070640003+038643480004+040224240003+041797080004+043377840003+044959320004+046532520003+048105000004+049677480003+051249960004+052822440003+054394920004+055967400003+057539880004+059112360003+060684840004+062257320003+063829800004+065462760003+067035240005+068608080002+069575760003+070180200004+071752680003+073325160004+074897640003+076470120004+078042600003+079615080004+081187560003+082820520004+084634920003+085965480004+087779880003+089110440004+090924840003+092255400004+094130280003+095400360004+097275240003+098545320004+100420200003+101750760004+103565160003+104895720004+106710120003+108040680004+109915560003+111185640004+113060520003+114330600004+116205480003+117475560004+119350440003+120681000004+122495400003+123825960004+125640360003+126970920004+128845800003+130115880006+141425280002+145901520003+214748364703"],
    [tt |-> "+25680+00000LMT  +25200+00000+07  +28800+00000+08  +32400+03600+09  ",
     at |-> "-203293125202+025243560003+041797440004+043378200003+044959680004+046531800003+048104640004+049676760003+051249600004+052821720003+054394560004+055966680003+057539520004+059111640003+060684480004+062256600003+063829440004+065462040003+067034880004+068607000003+070179840004+071751960003+073324800004+074896920003+076469760004+078041880003+079614720004+081186840003+082820160004+084392280003+085965120004+087537240003+089110080004+090682200003+098839440004+100169640003+101742480004+103314600003+104887440004+106459560003+108032400004+109604520003+111177360004+112749480003+114322320004+115954920003+142747920004+144319320003+145892880004+147464280003+214748364703"],
    [tt |-> "+28800+00000CST  +32400+03600CDT  ",
     at |-> "-160067520002-158590440001-093366720002-092209320001-090887040002-088882920001-088104960002-076786920001-074583360002-073382760001-071688960002-069961320001-068388480002-067066920001-065234880002-065001960001+051552720002+052701480001+054516240002+055846440001+057721680002+058991400001+060866640002+062196840001+064011600002+065341800001+067156560002+068486760001"],
    [tt |-> "+19200+00000MMT  +19800+00000+0530+21600+01800+06  +23400+03600+0630+23400+00000+0630+21600+00000+06  ",
     at |-> "-201970557202-088328700003-086263920004-076405140002+083296260005+084626640006+114503940002+214748364702"],
    [tt |-> "+21180+00000HMT  +23400+00000+0630+19800+00000+0530+21600+00000+06  +25200+03600+07  ",
     at |-> "-089158280002-087205860003-086263740002-057613860004+124543080005+126227880004+214748364704"],
    [tt |-> "+08700+00000LMT  +07200+00000EET  +10800+03600EEST +10800+00000+03  ",
     at |-> "-157793191202-156859200003-155408040002-153714240003-152263080002-150569280003-149118120002-147424320003-145912680002-024226560003-022887720002-021055680003-019742760002-017893440003-016571880002-014739840003-013426920002-011646720003-010264680002-008432640003-007111080002-005270400003-003948840002-002116800003-000795240002+001036800003+002358360002+004190400003+005511960002+007352640003+008674200002+010506240003+011827800002+013659840003+014981400002+016813440003+018135000002+019975680003+021297240002+023129280003+024191640002+026282880003+027345240002+041869440003+043381080002+045031680003+046543320002+050889600003+052919640002+054155520003+056263320002+057438720003+059425560002+060730560003+062319960002+063892800003+065464920002+067045680003+068626440002+070268400003+071788680002+073309680003+074890440002+076515120003+078095880002+079668720003+081249480002+082830960003+084411720002+085975920003+087565320002+089120880003+090718920002+092291760003+093872520002+095454000003+097034760002+098607600003+100188360002+101761200003+103341960002+104914800003+106495560002+108077040003+109657800002+111230640003+112811400002+114384240003+115887240002+117520560003+119395080002+120726000003+122548680002+123810480003+125685000002+127015920003+128829960002+130160880003+131974920002+133305840003+135119880002+136450800003+138264840002+139595760003+141470280002+142740720003+144615240002+145885680003+147760200002+149091120003+150905160002+152236080003+154050120002+155381040003+157195080002+158526000003+160400520002+161670960003+163545480002+164815920003+166690440004+214748364704"],
    [tt |-> "+30120+00000LMT  +28800+00000+08  +32400+00000+09  ",
     at |-> "-183041280002-087915240003+019989720002+096912000003+214748364703"],
    [tt |-> "+13260+00000LMT  +14400+00000+04  ",
     at |-> "-157793647202+214748364702"],
    [tt |-> "+16500+00000LMT  +18000+00000+05  +21600+00000+06  +25200+03600+07  +21600+03600+06  ",
     at |-> "-144116851202-124754760003+035490960004+037071720003+038644560004+040225320003+041798160004+043378920003+044960400004+046533600003+048106080004+049678560003+051251040004+052823520003+054396000004+055968480003+057540960004+059113440003+060685920004+062258400003+063830880004+065463840003+067036320005+068436360002+214748364702"],
    [tt |-> "+08160+00000LMT  +07200+00000EET  +10800+03600EEST +10800+00000+03  ",
     at |-> "-151892014802+016657200003+018229320002+020095920003+021382920002+022886640003+024398280002+026031600003+027612360002+029176560003+030748680002+032382000003+033893640002+035466480003+037038600002+038611440003+040183560002+041756400003+043328520002+044901360003+046533960002+048106800003+049678920002+051251760003+052823880002+054396720003+055968840002+057541680003+059113800002+060686640003+062258760002+063831600003+065464200002+067037040003+068609160002+070182000003+071754120002+073326960003+074899080002+076471920003+078044040002+079616880003+081189000002+082822320003+084394440002+085967280003+087539400002+089112240003+090927720002+092258280003+094133160002+095403240003+097278120002+098548200003+100423080002+101753640003+103568040002+104898600003+106713000002+108043560003+109918440002+111188520003+113063400002+114333480003+116208360002+117478440003+119353320002+120683880003+122498280002+123828840003+125643240002+126973800003+128848680002+130118760003+131993640002+133263720003+135138600002+136469160003+138283560002+139614120003+141428520002+142759080003+144573480002+145904040003+147328200004+150923880002+152193960003+154068840002+155399400003+157213800002+158544360003+160358760002+161689320003+163564200002+164834280003+166709160002+167979240003+169854120002+171184680003+172999080002+174329640003+176144040002+177474600003+179289000002+180619560003+182494440002+183764520003+185639400002+186909480003+188784360002+190114920003+191929320002+193259880003+195074280002+196404840003+198279720002+199549800003+201424680002+202694760003+204569640002+205839720003+207714600002+209045160003+210859560002+212190120003+214004520002"],
    [tt |-> "+07200+00000EET  +10800+03600EEST +07200+00000IST  +10800+03600IDT  ",
     at |-> "-093363840002-092309760001-091903680002-085734720001-084430080002-082581120001-081267840002-079418880001-077984640002-076265280001-074831040002-073111680001-039908880002-038665080001-036833040002-035511480001-033679080002-032365440001-030516840002-029203200001-027363240002-026049600001-024209640002-022896000001-021056040002-019742400001-017893800002-016580160001-014740200002-013426560001-011586600002-010264320001-008433000002-008131320003+014238000004+015084360003+016717680004+017866440003+033410160004+033773040003+045264240004+046231920003+048227760004+049437000003+051675120004+052642440003+054543600004+055847880003+057662640004+058932360003+060989040004+062077320003+063831600004+065161800003+066976560004+068367240003+070182000004+071572680003+073370160004+074717640003+076515120004+077802120003+079660080004+081007560003+082044720001+082865520002+084317040001+086010480002+087462000001+089155440002+090606960001+092421360002+093993480001+095626800002+097198920001+098771760002+100343880001+101916720002+103488840001+105061680002+106633800001+108206640002+109658160001+111351600002+112838040001+114384240002+115887240001+117537840002+118963800001+120665520002+121995720001+123810480002+125201520001+126964086002+128147400001+130160886002+131214600001+133305840002+134817840001+136450800002+138022920001+139595760002+141409800001+142749360002+144555120001+145894680002+147769200001+149039640002+150914160001+152184600002+154059120001+155381040002+157203720001+158534640002+160349040001+161679600002+163545840001+164833200002+166699800001+168272640002+169844760001+171357120002+172989720001+174441600002+176134680001+177465600002+179279640001+180610560002+182485080001+183755520002+185630040001+186900480002+188775000001+190105920002+191919960001+193250880002+195064920001+196395840002+198270360001+199540800002+201415320001+202685760002+204560280001+205830720002+207705240001+209036160002+210789720001+212181120002+213874200001"],
    [tt |-> "+07200+00000EET  +10800+03600EEST +07200+00000IST  +10800+03600IDT  ",
     at |-> "-093363840002-092309760001-091903680002-085734720001-084430080002-082581120001-081267840002-079418880001-077984640002-076265280001-074831040002-073111680001-039908880002-038665080001-036833040002-035511480001-033679080002-032365440001-030516840002-029203200001-027363240002-026049600001-024209640002-022896000001-021056040002-019742400001-017893800002-016580160001-014740200002-013426560001-011586600002-010264320001-008433000002-008131320003+014238000004+015084360003+016717680004+017866440003+033410160004+033773040003+045264240004+046231920003+048227760004+049437000003+051675120004+052642440003+054543600004+055847880003+057662640004+058932360003+060989040004+062077320003+063831600004+065161800003+066976560004+068367240003+070182000004+071572680003+073370160004+074717640003+076515120004+077802120003+079660080004+081007560003+082044720001+082865520002+084317040001+086010480002+087462000001+089155440002+090606960001+092421360002+093993480001+095626800002+097198920001+098771760002+100343880001+101916720002+103488840001+105061680002+106633800001+108206640002+109658160001+111351600002+112838040001+114384240002+115887240001+117537840002+118963800001+120665520002+122021640001+123810480002+125201520001+126955440002+128147400001+130160886002+131214600001+131465520002+131733000001+133305840002+134817840001+136450800002+138022920001+139595760002+141409800001+142749360002+144555120001+145894680002+147769200001+149039640002+150914160001+152184600002+154059120001+155381040002+157203720001+158534640002+160349040001+161679600002+163545840001+164833200002+166699800001+168272640002+169844760001+171357120002+172989720001+174441600002+176134680001+177465600002+179279640001+180610560002+182485080001+183755520002+185630040001+186900480002+188775000001+190105920002+191919960001+193250880002+195064920001+196395840002+198270360001+199540800002+201415320001+202685760002+204560280001+205830720002+207705240001+209036160002+210789720001+212181120002+213874200001"],
    [tt |-> "+25620+00000LMT  +25620+00000PLMT +25200+00000+07  +28800+00000+08  +32400+00000+09  ",
     at |-> "-200407359002-185157759003-085210560004-078264360005-076786920003-071809560004-045777240003-031564800004+017182080003+214748364703"],
    [tt |-> "+27420+00000LMT  +28800+00000HKT  +32400+03600HKST +30600+01800HKWT +32400+00000JST  ",
     at |-> "-205669080002-090091080003-089157960004-088424820005-076120920002-074790720003-072854100002-071704980003-069709140002-068378580003-066806100002-065475540003-063661140002-062330580003-060516180002-059185620003-057371220002-055980180003-054165780002-052835220003-051021180002-049811220003-047876220002-046666260003-044670780002-043521300003-041525820002-040315860003-038380860002-037170900003-035235900002-034025940003-032090940002-030880980003-028885500002-027736020003-025740540002-024591060003-022595580002-021385620003-019450620002-018240660003-016305660002-014853780003-013281660002-011708820003-010136700002-008563860003-006931260002-005358420003-003786300002-002213460003-000641340002+000931500003+002503620002+004076460003+005648580002+007221420003+008854020002+010426860003+011998980002+012604140003+015143940002+016716780003+018288900002+019861740003+021433860002+029538540003+030929220002"],
    [tt |-> "+22020+00000LMT  +21600+00000+06  +25200+00000+07  +28800+03600+08  ",
     at |-> "-203292759602+025243920003+041797800004+043378560003+044960040004+046532160003+048105000004+049677120003+051249960004+052822080003+054394920004+055967040003+057539880004+059112000003+060684840004+062256960003+063829800004+065462400003+067035240004+068607360003+070180200004+071752320003+073325160004+074897280003+076470120004+078042240003+079615080004+081187200003+082820520004+084392640003+085965480004+087537600003+089110440004+090682560003+098839800004+100170000003+101742840004+103314960003+104887800004+106459920003+108032760004+109604880003+111177720004+112749840003+114322680004+115955280003+142748280004+144319680003+145893240004+147464640003+214748364703"],
    [tt |-> "+25020+00000IMT  +25200+00000+07  +28800+00000+08  +32400+03600+09  +28800+03600+08  +32400+00000+09  ",
     at |-> "-157587462502-124755480003+035490240004+037071000003+038643840004+040224600003+041797440004+043378200003+044959680004+046532880003+048105360004+049677840003+051250320004+052822800003+054395280004+055967760003+057540240004+059112720003+060685200004+062257680003+063830160004+065463120003+067035600005+068608440002+069576120003+070180560004+071753040003+073325520004+074898000003+076470480004+078042960003+079615440004+081187920003+082820880004+084635280003+085965840004+087780240003+089110800004+090925200003+092255760004+094130640003+095400720004+097275600003+098545680004+100420560003+101751120004+103565520003+104896080004+106710480003+108041040004+109915920003+111186000004+113060880003+114330960004+116205840003+117475920004+119350800003+120681360004+122495760003+123826320004+125640720003+126971280004+128846160003+130116240006+141425640003+214748364703"],
    [tt |-> "+07020+00000IMT  +07200+00000EET  +10800+03600EEST +10800+00000+03  +14400+03600+04  ",
     at |-> "-186987581602-169370640003-168049080002-157041360003-155218680002-153835920003-152255160002-150751440003-149058360002-144020880003-142803000002-140970960003-139649400002-093105360003-092267640002-091783440003-089243640002-087584400003-076473720002-074434320003-073380600002-071643600003-070192440002-068498640003-067047480002-065414160003-063902520002-062208720003-060697080002-059003280003-057552120002-023562000003-019484280002-017773200003-016572600002+010791000003+012121560002+013392000003+015266520002+016467840003+018411480002+019621440003+021556440002+022887360003+024580440002+026032320003+026791560004+042845400005+043389360004+046811160002+048279960003+049671000002+051252120003+052824600002+054397080003+055969560002+057542040003+059114520002+060687000003+062259480002+063831960003+065464920002+067037400003+068609880002+070182360003+071754840002+073327320003+074899800002+076411800003+078044760002+079617240003+081189720002+082822680003+084637080002+085967640003+087782040002+089112600003+090927000002+092257560003+094132440002+095402520003+097277400002+098547480003+100422360002+101752920003+103567320002+104897880003+106712280002+108042840003+109917720002+111187800003+113062680002+114332760003+116207640002+117478440003+119353320002+120683880003+122498280002+123828840003+125643240002+126973800003+128848680002+130127400003+131993640002+133263720003+135138600002+136469160003+138283560002+139622760003+141428520002+142759080003+144694440002+145904040003+147319560004+214748364704"],
    [tt |-> "+25620+00000BMT  +26400+00000+0720+27000+00000+0730+32400+00000+09  +28800+00000+08  +25200+00000WIB  ",
     at |-> "-145171920002-117290640003-087664140004-076605480003-068388300005-062081280003-018941580006"],
    [tt |-> "+33780+00000LMT  +32400+00000+09  +34200+00000+0930+32400+00000WIT  ",
     at |-> "-117291376802-079949160003-018942300004"],
    [tt |-> "+08460+00000JMT  +07200+00000IST  +10800+03600IDT  +14400+07200IDDT ",
     at |-> "-164100364002-093363840003-092309760002-091903680003-085734720002-084430080003-082581120002-081267840003-079418880002-077984640003-076265280002-074831040003-073111680002-068195520004-067322880003-066795840002-065232000003-063642240002-062208000003-060894720002-059184000003-057248640002-055857600003-054285120002-052773120003-051442560002-049083840003-048297600002-045938880003-045152640002-042854400003-041826240002-040011840003-038741760002+014238000003+015084360002+016717680003+017866440002+033410160003+033773040002+045264240003+046231920002+048227760003+049437000002+051675120003+052642440002+054543600003+055847880002+057662640003+058932360002+060989040003+062077320002+063831600003+065161800002+066976560003+068367240002+070182000003+071572680002+073370160003+074717640002+076515120003+077802120002+079660080003+081007560002+082684080003+084282120002+085889520003+087418440002+089034480003+090502920002+092301120003+093631320002+095567040003+097078320002+098677080003+100128240002+101735640003+103394160002+104880600003+106513200002+108129240003+109580400002+111231360003+112881240002+114376320003+115965720002+117521280003+118989720002+120666240003+122316120002+123811200003+125400600002+126956160003+128424600002+130161600003+131751000002+133306560003+134835480002+136451520003+138282840002+139596480003+141427800002+142741440003+144572760002+145886400003+147778200002+149031360003+150923160002+152176320003+154068120002+155381760003+157213080002+158526720003+160358040002+161671680003+163563480002+164816640003+166708440002+167961600003+169853400002+171167040003+172998360002+174312000003+176143320002+177456960003+179288280002+180601920003+182493720002+183746880003+185638680002+186891840003+188783640002+190097280003+191928600002+193242240003+195073560002+196387200003+198279000002+199532160003+201423960002+202677120003+204568920002+205822080003+207713880002+209027520003+210858840002+212172480003+214003800002"],
    [tt |-> "+14400+00000+04  +16200+00000+0430",
     at |-> "-078893280002+214748364702"],
    [tt |-> "+38100+00000LMT  +39600+00000+11  +43200+00000+12  +46800+03600+13  +43200+03600+12  ",
     at |-> "-148775967602-124756920003+035488800004+037069560003+038642400004+040223160003+041796000004+043376760003+044958240004+046531440003+048103920004+049676400003+051248880004+052821360003+054393840004+055966320003+057538800004+059111280003+060683760004+062256240003+063828720004+065461680003+067034160005+068607000002+069574680003+070179120004+071751600003+073324080004+074896560003+076469040004+078041520003+079614000004+081186480003+082819440004+084633840003+085964400004+087778800003+089109360004+090923760003+092254320004+094129200003+095399280004+097274160003+098544240004+100419120003+101749680004+103564080003+104894640004+106709040003+108039600004+109914480003+111184560004+113059440003+114329520004+116204400003+117474480004+119349360003+120679920004+122494320003+123824880004+125639280003+126969840005+128845080002+130115160003+214748364703"],
    [tt |-> "+16080+00000LMT  +19800+00000+0530+23400+03600+0630+18000+00000+05  +18000+00000PKT  +21600+03600PKST ",
     at |-> "-198816649202-086263740003-076414500002-057613500004+003877560005+101811960006+103384080005+121226040006+122547600005+123973560006+125701200005"],
    [tt |-> "+21000+00000LMT  +21600+00000+06  ",
     at |-> "-132548342002+214748364702"],
    [tt |-> "+20460+00000LMT  +19800+00000+0530+20700+00000+0545",
     at |-> "-157794367602+050490180003+214748364703"],
    [tt |-> "+32520+00000LMT  +28800+00000+08  +32400+00000+09  +36000+03600+10  +32400+03600+09  +36000+00000+10  +39600+03600+11  +39600+00000+11  ",
     at |-> "-157942453302-124755840003+035489880004+037070640003+038643480004+040224240003+041797080004+043377840003+044959320004+046532520003+048105000004+049677480003+051249960004+052822440003+054394920004+055967400003+057539880004+059112360003+060684840004+062257320003+063829800004+065462760003+067035240005+068608080002+069575760003+070180200004+071752680003+073325160004+074897640003+076470120004+078042600003+079615080004+081187560003+082820520004+084634920003+085965480004+087779880003+089110440004+090924840003+092255400004+094130280003+095400360004+097275240003+098545320004+100420200003+101750760004+103565160003+104895720004+106710120003+107288280006+108040320007+109915200006+111185280007+113060160006+114330240007+116205120006+117475200007+119350080006+120680640007+122495040006+123825600007+125640000006+126970560007+128845440006+130115520008+131583240006+141425280003+214748364703"],
    [tt |-> "+22260+00000LMT  +21600+00000+06  +25200+00000+07  +28800+03600+08  +25200+03600+07  +28800+00000+08  ",
     at |-> "-157751348602-124755120003+035490600004+037071360003+038644200004+040224960003+041797800004+043378560003+044960040004+046533240003+048105720004+049678200003+051250680004+052823160003+054395640004+055968120003+057540600004+059113080003+060685560004+062258040003+063830520004+065463480003+067035960005+068608800002+069576480003+070180920004+071753400003+073325880004+074898360003+076470840004+078043320003+079615800004+081188280003+082821240004+084635640003+085966200004+087780600003+089111160004+090925560003+092256120004+094131000003+095401080004+097275960003+098546040004+100420920003+101751480004+103565880003+104896440004+106710840003+108041400004+109916280003+111186360004+113061240003+114331320004+116206200003+117476280004+119351160003+120681720004+122496120003+123826680004+125641080003+126971640004+128846520003+130116600006+141426000003+214748364703"],
    [tt |-> "+24900+00000SMT  +25200+00000+07  +26400+01200+0720+26400+00000+0720+27000+00000+0730+32400+00000+09  +28800+00000+08  ",
     at |-> "-203820092502-116763480003-107302800004-089418000005-087966540006-076700520005+037866240007+214748364707"],
    [tt |-> "+26460+00000LMT  +27000+00000+0730+28800+00000+08  +30000+01200+0820+32400+00000+09  ",
     at |-> "-138346328002-116763660003-108244800004-107458680003-105082560004-104296440003-101928960004-101142840003-098775360004-097989240003-095621760004-094835640003-092459520004-091673400003-089305920004-088519800003-087966720005-076700520003+214748364703"],
    [tt |-> "+11520+00000LMT  +10800+00000+03  ",
     at |-> "-063116351602+214748364702"],
    [tt |-> "+27240+00000LMT  +28800+00000CST  +32400+00000+09  +36000+03600+10  +32400+03600CDT  ",
     at |-> "-205669285002-088450920003-087328080004-085591800003-084174480004-082852920003-076536360002-074704680005-073382760002-071646120005-069702120002-068371560005-066799080002-065477160005-063662760002-062332200005-060517800002-059187240005-057364200002-055981800005-054167400002-052836840005-051022440002-049812840005-047877480002-046667880005-044672040002-043522920005-041525820002-040315860005-038380860002-037170900005-035235900002-034025940005-032090940002-030880980005-028885500002-027736020005-025740540002-024591060005-022595580002-021385620005-019450620002-018240660005-016305660002-014853780005-013282020002-011708820005-010137060002-008563860005-006931260002-005358420005-003786300002-002213460005-000641340002+000931500005+002503620002+004076460005+005648580002+007221420005+008854020002+010426860005+011998980002+012604140005+015143940002+016716780005+018288900002+019861740005+021433860002+029538540005+030929220002"],
    [tt |-> "+36180+00000LMT  +36000+00000+10  +39600+00000+11  +43200+03600+12  +39600+03600+11  +43200+00000+12  ",
     at |-> "-144118819202-124756560003+035489160004+037069920003+038642760004+040223520003+041796360004+043377120003+044958600004+046531800003+048104280004+049676760003+051249240004+052821720003+054394200004+055966680003+057539160004+059111640003+060684120004+062256600003+063829080004+065462040003+067034520005+068607360002+069575040003+070179480004+071751960003+073324440004+074896920003+076469400004+078041880003+079614360004+081186840003+082819800004+084634200003+085964760004+087779160003+089109720004+090924120003+092254680004+094129560003+095399640004+097274520003+098544600004+100419480003+101750040004+103564440003+104895000004+106709400003+108039960004+109914840003+111184920004+113059800003+114329880004+116204760003+117474840004+119349720003+120680280004+122494680003+123825240004+125639640003+126970200004+128845080003+130115160006+141424560002+146142720003+214748364703"],
    [tt |-> "+28680+00000LMT  +28680+00000MMT  +28800+00000+08  +32400+00000+09  +28800+00000WITA ",
     at |-> "-157795185602-117290865603-088027200004-076605480005"],
    [tt |-> "+28800+00000PST  +32400+03600PDT  +32400+00000JST  ",
     at |-> "-104667840002-104011560001-088502400002-088001640003-078359400002-076009320001-049622400002-049156200001+022832640002+024370200001+064321920002+064917720001"],
    [tt |-> "+14040+00000LMT  +14400+00000+04  ",
     at |-> "-157793726402+214748364702"],
    [tt |-> "+07980+00000LMT  +07200+00000EET  +10800+03600EEST ",
     at |-> "-151892000802+016657200003+018229320002+020095920003+021382920002+022886640003+024398280002+026031600003+027612360002+029176560003+030748680002+032382000003+033893640002+035466480003+037038600002+038611440003+040183560002+041756400003+043328520002+044901360003+046533960002+048106800003+049678920002+051251760003+052823880002+054396720003+055968840002+057541680003+059113800002+060686640003+062258760002+063831600003+065464200002+067037040003+068609160002+070182000003+071754120002+073326960003+074899080002+076471920003+078044040002+079616880003+081189000002+082822320003+084394440002+085967280003+087539400002+089112240003+090927720002+092258280003+094133160002+095403240003+097278120002+098548200003+100423080002+101753640003+103568040002+104898600003+106713000002+108043560003+109918440002+111188520003+113063400002+114333480003+116208360002+117478440003+119353320002+120683880003+122498280002+123828840003+125643240002+126973800003+128848680002+130118760003+131993640002+133263720003+135138600002+136469160003+138283560002+139614120003+141428520002+142759080003+144573480002+145904040003+147778920002+149049000003+150923880002+152193960003+154068840002+155399400003+157213800002+158544360003+160358760002+161689320003+163564200002+164834280003+166709160002+167979240003+169854120002+171184680003+172999080002+174329640003+176144040002+177474600003+179289000002+180619560003+182494440002+183764520003+185639400002+186909480003+188784360002+190114920003+191929320002+193259880003+195074280002+196404840003+198279720002+199549800003+201424680002+202694760003+204569640002+205839720003+207714600002+209045160003+210859560002+212190120003+214004520002"],
    [tt |-> "+20940+00000LMT  +21600+00000+06  +25200+00000+07  +28800+03600+08  +25200+03600+07  ",
     at |-> "-144125932802-124755120003+035490600004+037071360003+038644200004+040224960003+041797800004+043378560003+044960040004+046533240003+048105720004+049678200003+051250680004+052823160003+054395640004+055968120003+057540600004+059113080003+060685560004+062258040003+063830520004+065463480003+067035960005+068608800002+069576480003+070180920004+071753400003+073325880004+074898360003+076470840004+078043320003+079615800004+081188280003+082821240004+084635640003+085966200004+087780600003+089111160004+090925560003+092256120004+094131000003+095401080004+097275960003+098546040004+100420920003+101751480004+103565880003+104896440004+106710840003+108041400004+109916280003+111186360004+113061240003+114331320004+116206200003+117476280004+119351160003+120681720004+122496120003+123826680004+125641080003+126971640005+128846880002+130116960003+214748364703"],
    [tt |-> "+19920+00000LMT  +21600+00000+06  +25200+00000+07  +28800+03600+08  +25200+03600+07  ",
     at |-> "-157947670002-124755120003+035490600004+037071360003+038644200004+040224960003+041797800004+043378560003+044960040004+046533240003+048105720004+049678200003+051250680004+052823160003+054395640004+055968120003+057540600004+059113080003+060685560004+062258040003+063830520004+065463480003+067035960005+068608800002+069576480003+070180920004+071753400003+073325880004+073808640005+074898720002+076471200005+078043680002+079616160005+081188640002+082821600005+084636000002+085966560005+087780960002+089111520005+090925920002+092256480005+094131360002+095401440005+097276320002+098546400005+100421280002+101751840005+103566240002+104896800005+106711200002+108041760005+109916640002+111186720005+113061600002+114331680005+116206560002+117476640005+119351520002+120682080005+122496480002+123827040005+125641440002+126972000005+128846880002+130116960003+141426360002+146930400003+214748364703"],
    [tt |-> "+17640+00000LMT  +18000+00000+05  +21600+00000+06  +25200+03600+07  +21600+03600+06  +25200+00000+07  ",
     at |-> "-158208801002-124754760003+035490960004+037071720003+038644560004+040225320003+041798160004+043378920003+044960400004+046533600003+048106080004+049678560003+051251040004+052823520003+054396000004+055968480003+057540960004+059113440003+060685920004+062258400003+063830880004+065463840003+067036320005+068609160002+069576840003+070181280004+071753760003+073326240004+074898720003+076471200004+078043680003+079616160004+081188640003+082821600004+084636000003+085966560004+087780960003+089111520004+090925920003+092256480004+094131360003+095401440004+097276320003+098546400004+100421280003+101751840004+103566240003+104896800004+106711200003+108041760004+109916640003+111186720004+113061600003+114331680004+116206560003+117476640004+119351520003+120682080004+122496480003+123827040004+125641440003+126972000004+128846880003+130116960006+141426360003+214748364703"],
    [tt |-> "+12300+00000LMT  +10800+00000+03  +18000+00000+05  +21600+03600+06  +21600+00000+06  +18000+03600+05  +14400+00000+04  ",
     at |-> "-144116432402-124754040003+035491320004+037072080005+038644560004+040225680003+041798520004+043379280003+044960760004+046533960003+048106440004+049678920003+051251400004+052823880003+054396360004+055968840003+057541320004+059113800003+060686280006+062259120007+063831600006+065464560007+067037040006+068609520007+069577200003+070181640006+071754480007+073326960006+074899440007+076471920006+078044400007+079616880006+081189360007+082822320006+084636720007+085967280006+087781680007+089112240006+090926640007+092257200006+094132080007+095402160006+097277040007+098547120006+100422000007+101752560006+103566960007+104897520006+106711920007+108042480006+109917360003+214748364703"],
    [tt |-> "+25200+00000LMT  +25620+00000PLMT +25200+00000+07  +28800+00000+08  +32400+00000+09  ",
     at |-> "-200407318002-185157759003-085210560004-078264360005-076786920003+214748364703"],
    [tt |-> "+26220+00000LMT  +26220+00000PMT  +27000+00000+0730+32400+00000+09  +28800+00000+08  +28800+00000WITA +25200+00000WIB  ",
     at |-> "-194618624002-117290624003-088122060004-076605480003-068388300005-062081280003-018941580006+056796480007"],
    [tt |-> "+30180+00000LMT  +30600+00000KST  +32400+00000JST  +32400+00000KST  ",
     at |-> "-194878218002-183041460003-076864680004+143956440002+152544600004"],
    [tt |-> "+12360+00000LMT  +14400+00000+04  +10800+00000+03  ",
     at |-> "-157793556802+007619040003+214748364703"],
    [tt |-> "+15240+00000LMT  +14400+00000+04  +18000+00000+05  +21600+03600+06  +21600+00000+06  +18000+03600+05  ",
     at |-> "-144116726802-124754400003+035491320004+037072080005+038644560004+040225680003+041798520004+043379280003+044960760004+046533960003+048106440004+049678920003+051251400004+052823880003+054396360004+055968840003+057541320004+059113800003+060686280004+062258760003+063831240004+065464200003+067036680006+068609520002+069577200003+070181640004+071754120003+073326600004+074899080003+076471560004+078044040003+079616520004+081189000003+082821960004+084636360003+085966920004+087781320003+089111880004+090926280003+092256840004+094131720003+095401800004+097276680003+098546760004+100421640003+101752200004+103566600003+104897160004+106711560003+108042120004+109917000005+170922960003+214748364703"],
    [tt |-> "+15720+00000LMT  +14400+00000+04  +18000+00000+05  +21600+03600+06  +21600+00000+06  ",
     at |-> "-144116771202-124754400003+035491320004+037072080005+038644560004+040225680003+041798520004+043379280003+044960760004+046533960003+048106440004+049678920003+051251400004+052823880003+054396360004+055968840003+057541320004+059113800003+060686280004+062258760003+063831240004+065464200003+067036680003+068609520003+069576840005+070181280004+071754120003+073326600004+074899080003+076471560004+078044040003+079616520004+081189000003+082821960004+084636360003+085966920004+087781320003+089111880004+090926280003+092256840004+094131720003+095401800004+097276680003+098546760004+100421640003+101752200004+103566600003+104897160004+106711560003+108042120004+109917000005+154532880003+214748364703"],
    [tt |-> "+23100+00000RMT  +23400+00000+0630+32400+00000+09  ",
     at |-> "-157794628702-087326820003-077841000002+214748364702"],
    [tt |-> "+11220+00000LMT  +10800+00000+03  ",
     at |-> "-071963681202+214748364702"],
    [tt |-> "+34260+00000LMT  +32400+00000+09  +39600+00000+11  +43200+03600+12  +39600+03600+11  +36000+00000+10  ",
     at |-> "-203103904802-076856040003+035489160004+037069920003+038642760004+040223520003+041796360004+043377120003+044958600004+046531800003+048104280004+049676760003+051249240004+052821720003+054394200004+055966680003+057539160004+059111640003+060684120004+062256600003+063829080004+065462040003+067034520005+068607360006+069575040003+070179480004+071751960003+073324440004+074896920003+076469400004+078041880003+079614360004+081186840003+082819800004+084634200003+085964760005+087779520006+089110080005+090924480006+092255040005+094129920006+095400000005+097274880006+098544960005+100419840006+101750400005+103564800006+104895360005+106709760006+108040320005+109915200006+111185280005+113060160006+114330240005+116205120006+117475200005+119350080006+120680640005+122495040006+123825600005+125640000006+126970560005+128845440006+130115520003+141424920006+145900800003+214748364703"],
    [tt |-> "+16080+00000LMT  +14400+00000+04  +18000+00000+05  +21600+03600+06  +21600+00000+06  ",
     at |-> "-144116807302-124754400003+035491320004+037072080005+038644560004+040225680003+041798520004+043379280003+044960760004+046533960003+048106440004+049678920003+051251400004+052823880003+054396360004+055968840003+057541320004+059113800003+060686280004+062258760003+063831240004+065464200003+067036680004+068609160003+214748364703"],
    [tt |-> "+30480+00000LMT  +30600+00000KST  +32400+00000JST  +32400+00000KST  +36000+03600KDT  +34200+03600KDT  ",
     at |-> "-194878247202-183041460003-076735080004-068121000005-067222800004-065477160005-064086480004-062340840005-060941520004-058884840005-057796560004-049812840002-046270260006-045173340002-042978420006-041829660002-039954420006-038745180002-036809460006-035600220002-033664500006-032455260002-030519540006-029310300002-026493300004+054757800005+056088360004+057902760005+059233320004"],
    [tt |-> "+36900+00000LMT  +36000+00000+10  +39600+00000+11  +43200+03600+12  +39600+03600+11  +43200+00000+12  ",
     at |-> "-144118889202-124756560003+035489160004+037069920003+038642760004+040223520003+041796360004+043377120003+044958600004+046531800003+048104280004+049676760003+051249240004+052821720003+054394200004+055966680003+057539160004+059111640003+060684120004+062256600003+063829080004+065462040003+067034520005+068607360002+069575040003+070179480004+071751960003+073324440004+074896920003+076469400004+078041880003+079614360004+081186840003+082819800004+084634200003+085964760004+087779160003+089109720004+090924120003+092254680004+094129560003+095399640004+097274520003+098544600004+100419480003+101750040004+103564440003+104895000004+106709400003+108039960004+109914840003+111184920004+113059800003+114329880004+116204760003+117474840004+119349720003+120680280004+122494680003+123825240004+125639640003+126970200004+128845080003+130115160006+141424560003+214748364703"],
    [tt |-> "+28800+00000CST  +32400+00000JST  +32400+03600CDT  ",
     at |-> "-101782080002-076622400001-074583360003-073382760001-071688960003-069961320001-068388480003-067066920001-065234880003-063913320001-062081280003-060759720001-058927680003-057606120001-056292480003-054176040001-052871040003-051022440001-049717440003-047868840001-046563840003-044983080001-043401600003-041820840001-040248000003-038667240001-037094400003-035513640001-033940800003-032360040001-030251520003-029197800001-027097920003-026044200001+013397760003+014978520001+016551360003+018132120001+029960640003+030755160001"],
    [tt |-> "+16620+00000LMT  +18000+00000+05  +21600+00000+06  +25200+03600+07  +21600+03600+06  ",
     at |-> "-144116863102-124754760003+035490960004+037071720003+038644560004+040225320003+041798160004+043378920003+044960400004+046533600003+048106080004+049678560003+051251040004+052823520003+054396000004+055968480003+057540960004+059113440003+060685920004+062258400003+063830880004+065463840003+067036320005+068609160002+214748364702"],
    [tt |-> "+10740+00000TBMT +10800+00000+03  +14400+00000+04  +18000+03600+05  +14400+03600+04  ",
     at |-> "-144116275102-040514040003+035491680004+037072440003+038645280004+040226040003+041798880004+043379640003+044961120004+046534320003+048106800004+049679280003+051251760004+052824240003+054396720004+055969200003+057541680004+059114160003+060686640004+062259120003+063831600004+065464560003+067037040005+068609880002+070181640005+071753760002+073326600005+074898720002+076471560005+078043680003+079616160004+081188280003+082821600004+085966200004+087780600003+089111520004+090925560003+092256480004+094131000003+095401440004+097275960003+098546400004+100420920003+101751840004+103565880003+104896800004+106710840003+108041760004+108827640005+109917720002+111187800003+214748364703"],
    [tt |-> "+12360+00000LMT  +12360+00000TMT  +12600+00000+0330+16200+03600+0430+14400+00000+04  +18000+03600+05  ",
     at |-> "-170416594402-109046674403+022782060004+024622380005+025961760006+027110880005+027957600003+029659860004+030653100003+032243220004+033849900003+067321620004+068548140003+070120980004+071710380003+073274580004+074863980003+076428180004+078017580003+079581780004+081171180003+082735380004+084324780003+085897620004+087487020003+089051220004+090640620003+092204820004+093794220003+095358420004+096947820003+098520660004+100110060003+101674260004+103263660003+104827860004+106417260003+107981460004+109570860003+111143700004+112733100003+120604500004+122193900003+123766740004+125356140003+126920340004+128509740003+130073940004+131663340003+133227540004+134816940003+136389780004+137979180003+139543380004+141132780003+142696980004+144286380003+145850580004+147439980003+149012820004+150602220003+152166420004+153755820003+155320020004+156909420003+158473620004+160063020003+161635860004+163225260003+164789460004+166378860003+214748364703"],
    [tt |-> "+21540+00000LMT  +19800+00000+0530+21600+00000+06  ",
     at |-> "-070634151602+056002500003+214748364703"],
    [tt |-> "+32400+00000JST  +36000+03600JDT  ",
     at |-> "-068380200002-067231080001-065477160002-064086120001-062029800002-060941160001-058884840002-057796200001"],
    [tt |-> "+20400+00000LMT  +21600+00000+06  +25200+00000+07  +28800+03600+08  +25200+03600+07  ",
     at |-> "-157880759102-124755120003+035490600004+037071360003+038644200004+040224960003+041797800004+043378560003+044960040004+046533240003+048105720004+049678200003+051250680004+052823160003+054395640004+055968120003+057540600004+059113080003+060685560004+062258040003+063830520004+065463480003+067035960005+068608800002+069576480003+070180920004+071753400003+073325880004+074898360003+076470840004+078043320003+079615800004+081188280003+082821240004+084635640003+085966200004+087780600003+089111160004+090925560003+092256120004+094131000003+095401080004+097275960003+098546040004+100420920003+101751480004+102019320005+103566240002+104896800005+106711200002+108041760005+109916640002+111186720005+113061600002+114331680005+116206560002+117476640005+119351520002+120682080005+122496480002+123827040005+125641440002+126972000005+128846880002+130116960003+141426360002+146446560003+214748364703"],
    [tt |-> "+34380+00000LMT  +28800+00000+08  +32400+00000+09  +43200+10800+12  +39600+00000+11  +43200+03600+12  +39600+03600+11  +36000+00000+10  +43200+00000+12  ",
     at |-> "-157942637402-124755840003+035489880004+037069920005+038642760006+040223520005+041796360006+043377120005+044958600006+046531800005+048104280006+049676760005+051249240006+052821720005+054394200006+055966680005+057539160006+059111640005+060684120006+062256600005+063829080006+065462040005+067034520007+068607360008+069575040005+070179480006+071751960005+073324440006+074896920005+076469400006+078041880005+079614360006+081186840005+082819800006+084634200005+085964760006+087779160005+089109720006+090924120005+092254680006+094129560005+095399640006+097274520005+098544600006+100419480005+101750040006+103564440005+104895000006+106709400005+108039960006+109914840005+111184920006+113059800005+114329880006+116204760005+117474840006+119349720005+120680280006+122494680005+123825240006+125639640005+126970200006+128845080005+130115160009+131582880005+141424920008+214748364708"],
    [tt |-> "+24600+00000LMT  +25620+00000PLMT +25200+00000+07  +28800+00000+08  +32400+00000+09  ",
     at |-> "-200407262402-185157759003-085210560004-078264360005-076786920003-071809560004-046442880003+214748364703"],
    [tt |-> "+31680+00000LMT  +32400+00000+09  +36000+00000+10  +39600+03600+11  +36000+03600+10  +39600+00000+11  ",
     at |-> "-148732125102-124756200003+035489520004+037070280003+038643120004+040223880003+041796720004+043377480003+044958960004+046532160003+048104640004+049677120003+051249600004+052822080003+054394560004+055967040003+057539520004+059112000003+060684480004+062256960003+063829440004+065462400003+067034880005+068607720002+069575400003+070179840004+071752320003+073324800004+074897280003+076469760004+078042240003+079614720004+081187200003+082820160004+084634560003+085965120004+087779520003+089110080004+090924480003+092255040004+094129920003+095400000004+097274880003+098544960004+100419840003+101750400004+103564800003+104895360004+106709760003+108040320004+109915200003+111185280004+113060160003+114330240004+116205120003+117475200004+119350080003+120680640004+122495040003+123825600004+125640000003+126970560004+128845440003+130115520006+141424920003+214748364703"],
    [tt |-> "+31140+00000LMT  +28800+00000+08  +32400+00000+09  +36000+03600+10  +32400+03600+09  +36000+00000+10  ",
     at |-> "-157942313802-124755840003+035489880004+037070640003+038643480004+040224240003+041797080004+043377840003+044959320004+046532520003+048105000004+049677480003+051249960004+052822440003+054394920004+055967400003+057539880004+059112360003+060684840004+062257320003+063829800004+065462760003+067035240005+068608080002+069575760003+070180200004+071752680003+073325160004+074897640003+076470120004+078042600003+079615080004+081187560003+082820520004+084634920003+085965480004+087779880003+089110440004+090924840003+092255400004+094130280003+095400360004+097275240003+098545320004+100420200003+101750760004+103565160003+104895720004+106710120003+108040680004+109915560003+111185640004+113060520003+114330600004+116205480003+117475560004+119350440003+120681000004+122495400003+123825960004+125640360003+126970920004+128845800003+130115880006+141425280003+214748364703"],
    [tt |-> "+14580+00000LMT  +13500+00000PMT  +14400+00000+04  +18000+00000+05  +21600+03600+06  +18000+03600+05  +21600+00000+06  ",
     at |-> "-168827055302-159261030503-124754400004+035491320005+037072080004+038644920005+040225680004+041798520005+043379280004+044960760005+046533960004+048106440005+049678920004+051251400005+052823880004+054396360005+055968840004+057541320005+059113800004+060686280005+062258760004+063831240005+065464200004+067036680006+068609520003+069577200004+070181640005+071754120004+073326600005+074899080004+076471560005+078044040004+079616520005+081189000004+082821960005+084636360004+085966920005+087781320004+089111880005+090926280004+092256840005+094131720004+095401800005+097276680004+098546760005+100421640004+101752200005+103566600004+104897160005+106711560004+108042120005+109917000004+111187080005+113061960004+114332040005+116206920004+117477000005+119351880004+120682440005+122496840004+123827400005+125641800004+126972360005+128847240004+130117320007+141426720004+214748364704"],
    [tt |-> "+10680+00000LMT  +10800+00000+03  +14400+00000+04  +18000+03600+05  +14400+03600+04  ",
     at |-> "-144116268002-040514040003+035491680004+037072440003+038645280004+040226040003+041798880004+043379640003+044961120004+046534320003+048106800004+049679280003+051251760004+052824240003+054396720004+055969200003+057541680004+059114160003+060686640004+062259120003+063831600004+065464560003+067037040005+068609880002+070182360005+071754840002+073327320005+074899800002+076472280005+078044760002+079617240005+081189720003+085967280004+087781680003+089112240004+090926640003+092257200004+094132080003+095402160004+097277040003+098547120004+100422000003+101752560004+103566960003+104897520004+106711920003+108042480004+109917360003+111187440004+113062320003+114332400004+116207280003+117477360004+119352240003+120682800004+122497200003+123827760004+125642160003+126972720004+128847600003+130117680004+131992560003+214748364703"],
    [tt |-> "-06900+00000HMT  -07200+00000-02  -03600+03600-01  +00000+07200+00  -03600+00000-01  +00000+03600+00  +00000+00000WET  +03600+03600WEST ",
     at |-> "-183037680002-168954840003-167779440002-166742640003-164773080002-163589040003-161619480002-160435440003-158465880002-157273200003-155303640002-154119600003-152150040002-144244440003-142767000002-137928600003-136477080002-134844120003-133332120002-131638680003-130126680002-128433240003-126981720002-122143320003-120691800002-119119320003-117546840002-112768920003-111196440002-109684440003-108051480002-106358040003-104906520002-103334040003-101761560002-100249560003-098616600002-096923160003-095048280002-094201560003-092248920002-090693720003-089112600002-087730200003-087367680004-086400000003-085794840002-084585240003-084283200004-083134080003-082589400002-081440280003-081077760004-079989120003-079444440002-078295320003-077932800004-076844160003-076299480002-074908440003-073335960002-071762400003-070189920002-068617440003-067044960002-065472480003-063900000002-062327520003-060755040002-059182560003-057549600002-055977120003-054404640002-052832160003-051259680002-049687200003-048114720002-046542240003-044969760002-043397280003-041764320002-040191840003-038619360002-037046880003-035474400002-033901920003-032329440002-030756960003-029184480002-027612000003-026039520002-024467040003-022834080002-021261600003-019689120002-018116640003-016544160002-014971680003-013399200002-011826720003-010254240005+038612520006+040185000005+041757480006+043329960005+044902440006+046535400005+048107880006+049680360005+051252840006+052825320005+054397800006+055970280005+057542760006+059115240005+060687720006+062260200005+063832680006+065465640005+067038120006+068610600005+070183080006+071755560005+072542160007+073328040008+074027880006+074900520005+076473000006+078045480005+079617960006+081190440005+082823400006+084637800005+085968360006+087782760005+089113320006+090927720005+092258280006+094133160005+095403240006+097278120005+098548200006+100423080005+101753640006+103568040005+104898600006+106713000005+108043560006+109918440005+111188520006+113063400005+114333480006+116208360005+117478440006+119353320005+120683880006+122498280005+123828840006+125643240005+126973800006+128848680005+130118760006+131993640005+133263720006+135138600005+136469160006+138283560005+139614120006+141428520005+142759080006+144573480005+145904040006+147778920005+149049000006+150923880005+152193960006+154068840005+155399400006+157213800005+158544360006+160358760005+161689320006+163564200005+164834280006+166709160005+167979240006+169854120005+171184680006+172999080005+174329640006+176144040005+177474600006+179289000005+180619560006+182494440005+183764520006+185639400005+186909480006+188784360005+190114920006+191929320005+193259880006+195074280005+196404840006+198279720005+199549800006+201424680005+202694760006+204569640005+205839720006+207714600005+209045160006+210859560005+212190120006+214004520005+214748364705"],
    [tt |-> "-15540+00000BMT  -11940+03600BST  -14400+00000AST  -10800+03600ADT  ",
     at |-> "-166430764202-164893204201-163208044202-161869204201-126228124203-088272720004-085853880003-084522960004-082587960003-081438480004-079382520003-078293520004-076237560003-071398800004-070371000003-068193360004-067286520003-065048400004-064141560003-061842960004-060996600003-058698000004-057851640003-055553040004-054646200003-042912720004-041582520003+013636080004+015208200003+016781040004+018353160003+019926000004+021558600003+023070960004+024703560003+026276400004+027848520003+029421360004+030993480003+032566320004+034138440003+035711280004+037283400003+038856240004+040488840003+042001200004+043633800003+045206640004+046778760003+048351600004+049923720003+051496560004+053068680003+054460080004+056213640003+057605040004+059419080003+060750000004+062564040003+063894960004+065709000003+067100400004+068853960003+070245360004+071998920003+073390320004+075204360003+076535280004+078349320003+079680240004+081494280003+082885680004+084639240003+086030640004+087784200003+089175600004+090929160003+092320560004+094134600003+095465520004+097279560003+098610480004+100424520003+101815920004+103569480003+104960880004+106714440003+108105840004+109919880003+111250800004+113064840003+114395760004+116209800003+117359280004+119415240003+120504240004+122560200003+123649200004+125705160003+126854640004+128910600003+129999600004+132055560003+133144560004+135200520003+136289520004+138345480003+139434480004+141490440003+142579440004+144635400003+145784880004+147840840003+148929840004+150985800003+152074800004+154130760003+155219760004+157275720003+158364720004+160420680003+161570160004+163626120003+164715120004+166771080003+167860080004+169916040003+171005040004+173061000003+174150000004+176205960003+177294960004+179350920003+180500400004+182556360003+183645360004+185701320003+186790320004+188846280003+189935280004+191991240003+193080240004+195136200003+196285680004+198341640003+199430640004+201486600003+202575600004+204631560003+205720560004+207776520003+208865520004+210921480003+212010480004+214066440003"],
    [tt |-> "-03720+00000LMT  -03600+00000-01  +00000+00000WET  +03600+03600WEST ",
     at |-> "-150966350402-073387440003+032382720004+033895080003+035467560004+037040040003+038612520004+040185000003+041757480004+043329960003+044902440004+046535400003+048107880004+049680360003+051252840004+052825320003+054397800004+055970280003+057542760004+059115240003+060687720004+062260200003+063832680004+065465640003+067038120004+068610600003+070183080004+071755560003+073328040004+074900520003+076473000004+078045480003+079617960004+081190440003+082823400004+084637800003+085968360004+087782760003+089113320004+090927720003+092258280004+094133160003+095403240004+097278120003+098548200004+100423080003+101753640004+103568040003+104898600004+106713000003+108043560004+109918440003+111188520004+113063400003+114333480004+116208360003+117478440004+119353320003+120683880004+122498280003+123828840004+125643240003+126973800004+128848680003+130118760004+131993640003+133263720004+135138600003+136469160004+138283560003+139614120004+141428520003+142759080004+144573480003+145904040004+147778920003+149049000004+150923880003+152193960004+154068840003+155399400004+157213800003+158544360004+160358760003+161689320004+163564200003+164834280004+166709160003+167979240004+169854120003+171184680004+172999080003+174329640004+176144040003+177474600004+179289000003+180619560004+182494440003+183764520004+185639400003+186909480004+188784360003+190114920004+191929320003+193259880004+195074280003+196404840004+198279720003+199549800004+201424680003+202694760004+204569640003+205839720004+207714600003+209045160004+210859560003+212190120004+214004520003"],
    [tt |-> "-05640+00000LMT  -07200+00000-02  -03600+03600-01  -03600+00000-01  ",
     at |-> "-183037680002-086261040003-076411800002+018612000004+214748364704"],
    [tt |-> "-01620+00000LMT  +00000+00000WET  +03600+03600WEST ",
     at |-> "-195574877602+035467560003+037040040002+038612520003+040185000002+041757480003+043329960002+044902440003+046535400002+048107880003+049680360002+051252840003+052825320002+054397800003+055970280002+057542760003+059115240002+060687720003+062260200002+063832680003+065465640002+067038120003+068610600002+070183080003+071755560002+073328040003+074900520002+076473000003+078045480002+079617960003+081190440002+082823400003+084637800002+085968360003+087782760002+089113320003+090927720002+092258280003+094133160002+095403240003+097278120002+098548200003+100423080002+101753640003+103568040002+104898600003+106713000002+108043560003+109918440002+111188520003+113063400002+114333480003+116208360002+117478440003+119353320002+120683880003+122498280002+123828840003+125643240002+126973800003+128848680002+130118760003+131993640002+133263720003+135138600002+136469160003+138283560002+139614120003+141428520002+142759080003+144573480002+145904040003+147778920002+149049000003+150923880002+152193960003+154068840002+155399400003+157213800002+158544360003+160358760002+161689320003+163564200002+164834280003+166709160002+167979240003+169854120002+171184680003+172999080002+174329640003+176144040002+177474600003+179289000002+180619560003+182494440002+183764520003+185639400002+186909480003+188784360002+190114920003+191929320002+193259880003+195074280002+196404840003+198279720002+199549800003+201424680002+202694760003+204569640002+205839720003+207714600002+209045160003+210859560002+212190120003+214004520002"],
    [tt |-> "-04080+00000FMT  -03600+00000-01  +00000+03600+00  +03600+07200+01  +00000+00000WET  +03600+03600WEST ",
     at |-> "-183038040002-168955200003-167779800002-166743000003-164773440002-163589400003-161619840002-160435800003-158466240002-157273560003-155304000002-154119960003-152150400002-144244800003-142767360002-137928960003-136477440002-134844480003-133332480002-131639040003-130127040002-128433600003-126982080002-122143680003-120692160002-119119680003-117547200002-112769280003-111196800002-109684800003-108051840002-106358400003-104906880002-103334400003-101761920002-100249920003-098616960002-096923520003-095048640002-094201920003-092249280002-090694080003-089112960002-087730560003-087368040004-086400360003-085795200002-084585600003-084283560004-083134440003-082589760002-081440640003-081078120004-079989480003-079444800002-078295680003-077933160004-076844520003-076299840002-074908800003-073336320002-071762760003-070190280002-068617800003-067045320002-065472840003-063900360002-062327880003-060755400002-059182920003-057549960002-055977480003-054405000002-052832520003-051260040002-049687560003-048115080002-046542600003-044970120002-043397640003-041764680002-040192200003-038619720002-037047240003-035474760002-033902280003-032329800002-030757320003-029184840002-027612360003-026039880002-024467400003-022834440002-021261960003-019689480002-018117000003-016544520002-014972040003-013399560002-011827080003-010254600005+038672640006+040184640005+041757120006+043329600005+044902080006+046535040005+048107520006+049680000005+051252480006+052825320005+054397800006+055970280005+057542760006+059115240005+060687720006+062260200005+063832680006+065465640005+067038120006+068610600005+070183080006+071755560005+073328040006+074900520005+076473000006+078045480005+079617960006+081190440005+082823400006+084637800005+085968360006+087782760005+089113320006+090927720005+092258280006+094133160005+095403240006+097278120005+098548200006+100423080005+101753640006+103568040005+104898600006+106713000005+108043560006+109918440005+111188520006+113063400005+114333480006+116208360005+117478440006+119353320005+120683880006+122498280005+123828840006+125643240005+126973800006+128848680005+130118760006+131993640005+133263720006+135138600005+136469160006+138283560005+139614120006+141428520005+142759080006+144573480005+145904040006+147778920005+149049000006+150923880005+152193960006+154068840005+155399400006+157213800005+158544360006+160358760005+161689320006+163564200005+164834280006+166709160005+167979240006+169854120005+171184680006+172999080005+174329640006+176144040005+177474600006+179289000005+180619560006+182494440005+183764520006+185639400005+186909480006+188784360005+190114920006+191929320005+193259880006+195074280005+196404840006+198279720005+199549800006+201424680005+202694760006+204569640005+205839720006+207714600005+209045160006+210859560005+212190120006+214004520005"],
    [tt |-> "-05280+00000LMT  -03600+00000-01  +00000+03600+00  +00000+00000GMT  ",
     at |-> "-195660912002-166821120003-164721240002-163667520003-161343000002-160513920003-158189400002-153956160003-153135000002-096802560003-095229360002-094200840003-092023920002-090995760003-088878960002-087790320003-085794480002-084645360003-082649520002-081500400003-079504560002-078355440003-076299120002-075210480003-073154160002-071763120003-070009200002-068618160003-066864240002-065473200003-063658800002-062328240003-060574320002-059183280003-057368880002-055977840003-054223920002-052832880003-051078960002-049687920003-047934000002-046542960003-044789040002-043398000003-041583600002-040192560003-038438640002-037047600003-035293680002-033902640003-032148720002-030757680003-029003760002-027612720003-025858800002-024467760003-022653360002-021262320003-019508400002-018117360003-016363440002-014972400003-013218480002-011827440003-010073520002-008682480003-006868080002-005477040004"],
    [tt |-> "-07200+00000-02  ",
     at |-> "+214748364701"],
    [tt |-> "-01380+00000JMT  +00000+00000GMT  ",
     at |-> "-059961463202"],
    [tt |-> "-13860+00000SMT  -14400+00000-04  -10800+03600-03  -10800+00000-03  -07200+03600-02  ",
     at |-> "-182423571602-101820960003-100309320002-098676000003-097164360002-095470560003-093958920002-092325600003-090813960002-089180640003-087669000002-086035680003-085206600002+042060960004+043330680005+045205200004+046415160005+048350160004+049560120003+051435000002+052705440003+054579960002+055850400003+057724920002+058995360003+060869880002+062140320003+064075320002+065285280003+067220280002+068490720003+070365240002+071635680003+073510200002+074780640003+076655160002+077925600003+079800120002+081070560003+083005560002+084276000003+086150520002+087420960003+089295480002+090565920003+092440440002+093710880003+095585400002+096855840003+098731080002+099941040003+101936520002+103086000003+105081480002+106291440003+108226440002+109436400003+111371400002+112581360003+114516360002+115726320003+117661320002+118871280003+120866760002+122076720003+124011720002+125221680003+127156680002+128366640004+214748364704"],
    [tt |-> "+36000+00000AEST +39600+03600AEDT ",
     at |-> "-167256000002-166538880001-088364160002-087612480001-086040000002-084467520001-082834560002-081322560001+005768640002+006796800001+008913600002+010002240001+012058560002+013147200001+015203520002+016292160001+018348480002+019497600001+021553920002+022642560001+024698880002+025787520001+027843840002+028932480001+030988800002+032077440001+034133760002+035222400001+037278720002+038669760001+040484160002+041572800001+043629120002+044717760001+046774080002+047862720001+049919040002+051128640001+053003520002+054273600001+056208960002+057479040001+059414400002+060624000001+062559360002+063648000001+065704320002+066792960001+068849280002+069937920001+071994240002+073143360001+075199680002+076288320001+078344640002+079433280001+081489600002+082820160001+084634560002+085965120001+087779520002+089110080001+090924480002+092255040001+094129920002+095400000001+096730560002+098544960001+100419840002+101750400001+103564800002+104895360001+106709760002+108040320001+109915200002+111185280001+113060160002+114390720001+116205120002+117475200001+119350080002+120741120001+122313600002+123886080001+125458560002+127031040001+128603520002+130176000001+131748480002+133320960001+134953920002+136526400001+138098880002+139671360001+141243840002+142816320001+144388800002+145961280001+147533760002+149106240001+150678720002+152251200001+153884160002+155456640001+157029120002+158601600001+160174080002+161746560001+163319040002+164891520001+166464000002+168036480001+169608960002+171241920001+172814400002+174386880001+175959360002+177531840001+179104320002+180676800001+182249280002+183821760001+185394240002+186966720001+188599680002+190172160001+191744640002+193317120001+194889600002+196462080001+198034560002+199607040001+201179520002+202752000001+204324480002+205896960001+207529920002+209102400001+210674880002+212247360001+213819840002"],
    [tt |-> "+34200+00000ACST +37800+03600ACDT ",
     at |-> "-167255820002-166538700001-088363980002-087612300001-086039820002-084467340001-082834380002-081322380001+005768820002+006796980001+008913780002+010002420001+012058740002+013147380001+015203700002+016292340001+018348660002+019497780001+021554100002+022642740001+024699060002+025787700001+027844020002+028932660001+030988980002+032077620001+034133940002+035222580001+037278900002+038428020001+040484340002+041572980001+043629300002+044717940001+046774260002+047862900001+049919220002+051128820001+053003700002+054273780001+056209140002+057479220001+059414580002+060624180001+062559540002+063769140001+065704500002+066793140001+068849460002+070119540001+071994420002+073143540001+075199860002+076409460001+078344820002+079614900001+081489780002+082820340001+084634740002+085965300001+087779700002+089110260001+090924660002+092255220001+094130100002+095400180001+097275060002+098545140001+100420020002+101750580001+103564980002+104895540001+106709940002+108040500001+109915380002+111185460001+113060340002+114390900001+116205300002+117475380001+119350260002+120741300001+122313780002+123886260001+125458740002+127031220001+128603700002+130176180001+131748660002+133321140001+134954100002+136526580001+138099060002+139671540001+141244020002+142816500001+144388980002+145961460001+147533940002+149106420001+150678900002+152251380001+153884340002+155456820001+157029300002+158601780001+160174260002+161746740001+163319220002+164891700001+166464180002+168036660001+169609140002+171242100001+172814580002+174387060001+175959540002+177532020001+179104500002+180676980001+182249460002+183821940001+185394420002+186966900001+188599860002+190172340001+191744820002+193317300001+194889780002+196462260001+198034740002+199607220001+201179700002+202752180001+204324660002+205897140001+207530100002+209102580001+210675060002+212247540001+213820020002"],
    [tt |-> "+36000+00000AEST +39600+03600AEDT ",
     at |-> "-167256000002-166538880001-088364160002-087612480001-086040000002-084467520001-082834560002-081322560001+005768640002+006796800001+062559360002+063648000001+065704320002+066792960001+068849280002+069937920001"],
    [tt |-> "+34200+00000ACST +37800+03600ACDT ",
     at |-> "-167255820002-166538700001-088363980002-087612300001-086039820002-084467340001-082834380002-081322380001+005768820002+006796980001+008913780002+010002420001+012058740002+013147380001+015203700002+016292340001+018348660002+019497780001+021554100002+022642740001+024699060002+025787700001+027844020002+028932660001+030988980002+032077620001+034133940002+035222580001+037278900002+038669940001+040484340002+041572980001+043629300002+044717940001+046774260002+047862900001+049919220002+051128820001+053003700002+054273780001+056209140002+057479220001+059414580002+060624180001+062559540002+063648180001+065704500002+066793140001+068849460002+069938100001+071994420002+073143540001+075199860002+076288500001+078344820002+079433460001+081489780002+082820340001+084634740002+085965300001+087779700002+089110260001+090924660002+092255220001+094130100002+095400180001+097275060002+098545140001+100420020002+101750580001+103564980002+104895540001+106709940002+108040500001+109915380002+111185460001+113060340002+114390900001+116205300002+117475380001+119350260002+120741300001+122313780002+123886260001+125458740002+127031220001+128603700002+130176180001+131748660002+133321140001+134954100002+136526580001+138099060002+139671540001+141244020002+142816500001+144388980002+145961460001+147533940002+149106420001+150678900002+152251380001+153884340002+155456820001+157029300002+158601780001+160174260002+161746740001+163319220002+164891700001+166464180002+168036660001+169609140002+171242100001+172814580002+174387060001+175959540002+177532020001+179104500002+180676980001+182249460002+183821940001+185394420002+186966900001+188599860002+190172340001+191744820002+193317300001+194889780002+196462260001+198034740002+199607220001+201179700002+202752180001+204324660002+205897140001+207530100002+209102580001+210675060002+212247540001+213820020002"],
    [tt |-> "+36000+00000AEST +39600+03600AEDT ",
     at |-> "-168050880002-166538880001-164664000002-163575360001-161519040002-160430400001-088364160002-087612480001-086040000002-084467520001-082834560002-081322560001-007113600002-005541120001-003726720002-002577600001-000581760002+000567360001+002563200002+003772800001+005768640002+006796800001+008913600002+010002240001+012058560002+013147200001+015203520002+016292160001+018348480002+019497600001+021553920002+022642560001+024698880002+025787520001+027843840002+028932480001+030988800002+032077440001+034133760002+035222400001+037278720002+038609280001+040484160002+041754240001+043629120002+044717760001+046774080002+047862720001+049919040002+051007680001+053003520002+054273600001+056208960002+057479040001+059414400002+060624000001+062559360002+063768960001+065704320002+067034880001+068667840002+070179840001+071812800002+073324800001+074957760002+076469760001+078102720002+079614720001+081247680002+082820160001+084453120002+085965120001+087598080002+089110080001+090743040002+092255040001+093888000002+095400000001+096730560002+098544960001+100238400002+101750400001+103383360002+104895360001+106528320002+108040320001+109673280002+111185280001+112818240002+114390720001+115963200002+117475200001+119168640002+120741120001+122313600002+123886080001+125458560002+127031040001+128603520002+130176000001+131748480002+133320960001+134953920002+136526400001+138098880002+139671360001+141243840002+142816320001+144388800002+145961280001+147533760002+149106240001+150678720002+152251200001+153884160002+155456640001+157029120002+158601600001+160174080002+161746560001+163319040002+164891520001+166464000002+168036480001+169608960002+171241920001+172814400002+174386880001+175959360002+177531840001+179104320002+180676800001+182249280002+183821760001+185394240002+186966720001+188599680002+190172160001+191744640002+193317120001+194889600002+196462080001+198034560002+199607040001+201179520002+202752000001+204324480002+205896960001+207529920002+209102400001+210674880002+212247360001+213819840002"],
    [tt |-> "+34200+00000ACST +37800+03600ACDT ",
     at |-> "-167255820002-166538700001-088363980002-087612300001-086039820002-084467340001-082834380002-081322380001"],
    [tt |-> "+31500+00000+0845+35100+03600+0945",
     at |-> "-167255550002-166538430001-088363710002-087612030001-086039550002-084467070001+015203970002+016292610001+043629570002+044718210001+069031170002+069938370001+116507970002+117475650001+119350530002+120681090001+122495490002+123826050001+214748364701"],
    [tt |-> "+36000+00000AEST +37800+00000+1030+41400+03600+1130+39600+01800+11  ",
     at |-> "+035221680002+037278540003+038427300002+040483980003+041572260002+043628940003+044717220002+046773900003+047862180002+049918860004+051128280002+053003340004+054273240002+056208780004+057478680002+059414220004+060623640002+062559180004+063647640002+065704140004+066792600002+068849100004+069937560002+071994060004+073143000002+075199500004+076287960002+078344460004+079432920002+081489420004+082819800002+084634380004+085964760002+087779340004+089109720002+090924300004+092254680002+094129740004+095399640002+096730380004+098544600002+100419660004+101750040002+103564620004+104895000002+106709580004+108039960002+109915020004+111184920002+113059980004+114390360002+116204940004+117474840002+119349900004+120740760002+122313420004+123885720002+125458380004+127030680002+128603340004+130175640002+131748300004+133320600002+134953740004+136526040002+138098700004+139671000002+141243660004+142815960002+144388620004+145960920002+147533580004+149105880002+150678540004+152250840002+153883980004+155456280002+157028940004+158601240002+160173900004+161746200002+163318860004+164891160002+166463820004+168036120002+169608780004+171241560002+172814220004+174386520002+175959180004+177531480002+179104140004+180676440002+182249100004+183821400002+185394060004+186966360002+188599500004+190171800002+191744460004+193316760002+194889420004+196461720002+198034380004+199606680002+201179340004+202751640002+204324300004+205896600002+207529740004+209102040002+210674700004+212247000002+213819660004+214748364704"],
    [tt |-> "+36000+00000AEST +39600+03600AEDT ",
     at |-> "-167256000002-166538880001-088364160002-087612480001-086040000002-084467520001-082834560002-081322560001+005768640002+006796800001+062559360002+063648000001+065704320002+066792960001+068849280002+069937920001+071994240002+073143360001+075199680002+076288320001"],
    [tt |-> "+36000+00000AEST +39600+03600AEDT ",
     at |-> "-167256000002-166538880001-088364160002-087612480001-086040000002-084467520001-082834560002-081322560001+005768640002+006796800001+008913600002+010002240001+012058560002+013147200001+015203520002+016292160001+018348480002+019497600001+021553920002+022642560001+024698880002+025787520001+027843840002+028932480001+030988800002+032077440001+034133760002+035222400001+037278720002+038427840001+040484160002+041572800001+043629120002+044717760001+046774080002+047862720001+049919040002+051128640001+053003520002+054273600001+056148480002+057479040001+059414400002+060624000001+062559360002+063768960001+065704320002+066792960001+068849280002+069937920001+071994240002+073143360001+075199680002+076288320001+078344640002+079614720001+081489600002+082820160001+084634560002+085965120001+087779520002+089110080001+090924480002+092255040001+094129920002+095400000001+096730560002+098544960001+100419840002+101750400001+103564800002+104895360001+106709760002+108040320001+109915200002+111185280001+113060160002+114390720001+116205120002+117475200001+119350080002+120741120001+122313600002+123886080001+125458560002+127031040001+128603520002+130176000001+131748480002+133320960001+134953920002+136526400001+138098880002+139671360001+141243840002+142816320001+144388800002+145961280001+147533760002+149106240001+150678720002+152251200001+153884160002+155456640001+157029120002+158601600001+160174080002+161746560001+163319040002+164891520001+166464000002+168036480001+169608960002+171241920001+172814400002+174386880001+175959360002+177531840001+179104320002+180676800001+182249280002+183821760001+185394240002+186966720001+188599680002+190172160001+191744640002+193317120001+194889600002+196462080001+198034560002+199607040001+201179520002+202752000001+204324480002+205896960001+207529920002+209102400001+210674880002+212247360001+213819840002"],
    [tt |-> "+28800+00000AWST +32400+03600AWDT ",
     at |-> "-167255280002-166538160001-088363440002-087611760001-086039280002-084466800001+015204240002+016292880001+043629840002+044718480001+069031440002+069938640001+116508240002+117475920001+119350800002+120681360001+122495760002+123826320001"],
    [tt |-> "+00000+00000WET  +03600+00000CET  +07200+03600CEST +03600+03600WEST +07200+07200CEST ",
     at |-> "-174035520002-169370280003-168048360002-166345560003-165015000002-163200600003-161870040002-161382600001-160427880004-158553000001-157403880004-155226600001-153999720004-152055720001-150751080004-149057640001-147364200004-145912680001-144400680004-142767720001-141195240004-139622760001-137929320004-136477800001-134844840004-133332840001-131639400004-130126320001-128432880004-126981360001-125348400004-123836400001-122142960004-120691440001-119118960004-117546480001-116034480004-114341040001-112768560004-111196080001-109684080004-108051120001-106357680004-104906160001-103333680004-101761200001-100249200004-098616240001-096922800004-095047920001-094201200004-093466800005-085725720002-084455640003-082822680002-081250200003-079807320002-078105240003-076662360002-074545560003-073327320002+022887720003+024399720002+026032680003+027605160002+029177640003+030750120002+032383080003+033895080002+035467560003+037040040002+038612520003+040185000002+041757480003+043329960002+044902440003+046535400002+048107880003+049680360002+051252840003+052825320002+054397800003+055970280002+057542760003+059115240002+060687720003+062260200002+063832680003+065465640002+067038120003+068610600002+070183080003+071755560002+073328040003+074900520002+076473000003+078045480002+079617960003+081190440002+082823400003+084637800002+085968360003+087782760002+089113320003+090927720002+092258280003+094133160002+095403240003+097278120002+098548200003+100423080002+101753640003+103568040002+104898600003+106713000002+108043560003+109918440002+111188520003+113063400002+114333480003+116208360002+117478440003+119353320002+120683880003+122498280002+123828840003+125643240002+126973800003+128848680002+130118760003+131993640002+133263720003+135138600002+136469160003+138283560002+139614120003+141428520002+142759080003+144573480002+145904040003+147778920002+149049000003+150923880002+152193960003+154068840002+155399400003+157213800002+158544360003+160358760002+161689320003+163564200002+164834280003+166709160002+167979240003+169854120002+171184680003+172999080002+174329640003+176144040002+177474600003+179289000002+180619560003+182494440002+183764520003+185639400002+186909480003+188784360002+190114920003+191929320002+193259880003+195074280002+196404840003+198279720002+199549800003+201424680002+202694760003+204569640002+205839720003+207714600002+209045160003+210859560002+212190120003+214004520002"],
    [tt |-> "-26220+00000EMT  -25200+00000-07  -21600+03600-06  -21600+00000-06  -18000+03600-05  ",
     at |-> "-117812415202-003661920003-002392200002-000335520003+000752760002+002446560003+003776760002+005591520003+006921720002+008796960003+010066680002+011820960003+013211640002+015086880003+016356600002+018231840003+019562040002+021376800003+022707000002+024521760003+025851960002+027727200003+028996920002+030872160003+032141880002+034017120003+035347320002+037162080003+038492280004+040307040005+041637240004+043452000005+044782200004+046657440005+047927160004+049802400005+051072120004+052947360005+054519480004+056092320005+057422520004+059237280005+060567480004+062442720005+063712440004+065345760005+066857400004+068732640005+070062840004+071877600005+073207800004+075022560005+076352760004+078167520005+079497720004+081372960005+082642680004+084517920005+085969080004+087662880005+088993080004+090686880005+092319480004+093952800005+095283000004+097158240005+098427960004+100303200005+101572920004+103448160005+104717880004+106593120005+107923320004+109738080005+111068280004+112883040005+114213240004+116088480005+117358200004+119233440005+120684600004+122378400005+123708600004+125523360005+127035000004+128668320005+130482360004+131389920005+133566840004+134655840005+136711800004+137861280005+139856760004+141006240005+146328120004+147114720005+149473080004+150259680005+152618040004+153404640005+155460600004+156791520005+158605560004+159936480005+161750520004+163081440005+164895480004+166286880005+168040440004+169371360005+171245880004+172576800005+174390840004+175721760005+177535800004+178866720005+180680760004+182011680005+183825720004+185156640005+187031160004+188301600005+190176120004+191507040005+193321080004+194652000005+196466040004+197796960005+199611000004+200941920005+202755960004+204086880005+205961400004+207231840005+209106360004+210437280005+212251320004+213582240005+214748364705"],
    [tt |-> "+05700+00000AMT  +07200+00000EET  +10800+03600EEST +07200+03600CEST +03600+00000CET  ",
     at |-> "-168610163202-118299600003-117816120002-090686160003-090487800004-085725720005-084447720004-082823760005-081242280002-055236240003-054165240002+016648560003+018618480002+019802880003+021375360002+022887360003+024408000002+026032320003+027544680002+029179800003+030740760002+032338800003+033893640002+035467560003+037040040002+038612520003+040185000002+041757480003+043329960002+044902440003+046535400002+048107880003+049680360002+051252840003+052825320002+054397800003+055970280002+057542760003+059115240002+060687720003+062260200002+063832680003+065465640002+067038120003+068610600002+070183080003+071755560002+073328040003+074900520002+076473000003+078045480002+079617960003+081190440002+082823400003+084637800002+085968360003+087782760002+089113320003+090927720002+092258280003+094133160002+095403240003+097278120002+098548200003+100423080002+101753640003+103568040002+104898600003+106713000002+108043560003+109918440002+111188520003+113063400002+114333480003+116208360002+117478440003+119353320002+120683880003+122498280002+123828840003+125643240002+126973800003+128848680002+130118760003+131993640002+133263720003+135138600002+136469160003+138283560002+139614120003+141428520002+142759080003+144573480002+145904040003+147778920002+149049000003+150923880002+152193960003+154068840002+155399400003+157213800002+158544360003+160358760002+161689320003+163564200002+164834280003+166709160002+167979240003+169854120002+171184680003+172999080002+174329640003+176144040002+177474600003+179289000002+180619560003+182494440002+183764520003+185639400002+186909480003+188784360002+190114920003+191929320002+193259880003+195074280002+196404840003+198279720002+199549800003+201424680002+202694760003+204569640002+205839720003+207714600002+209045160003+210859560002+212190120003+214004520002"],
    [tt |-> "-01500+00000DMT  +02100+03600IST  +00000+00000GMT  +03600+03600BST  +03600+03600IST  +03600+00000IST  +00000-03600GMT  ",
     at |-> "-169196247902-168047127903-166414320004-165014640003-163390320004-161748720003-160184880004-158603760003-157039920004-155216880003-153834480004-152253360003-150750000005-149056560003-147363120005-146093040003-144278640005-142887600003-141073200005-139621680003-137928240005-136476720003-134843760005-133331760003-131577840005-130126320003-128432880005-126981360003-125348400005-123836400003-122142960005-120691440003-118998000005-117546480003-115913520005-114341040003-112647600005-111196080003-109563120005-108051120003-106357680005-104906160003-103212720005-101761200003-100128240005-098616240003-096922800005-095047920003-094201200005-073335600003-071944560005-069948720003-068497200005-066803760003-065473200005-063658800003-062207280005-060574320003-059062320005-057429360003-055856880005-054223920003-052711920005-051260400003-049627440005-048115440003-046422000005-044970480003-043216560005-041765040003-040132080005-038620080003-036926640005-035475120003-033781680005-032330160003-030697200005-029185200003-027673200005-025798320003-024528240005-022653360003-021322800005-019508400003-018238320005-016363440003-015093360005-013218480003-011948400005-010073520003-008803440005-006868080003-005900400005-003724200006+005772240007+006981840006+008917200007+010126800006+012062160007+013271760006+015207120007+016416720006+018352080007+019622160006+021497040007+022767120006+024642000007+025912080006+027847440007+029057040006+030992400007+032202000006+034137360007+035467560006+037281960007+038612520006+040426920007+041757480006+043571880007+044902440006+046777320007+048107880006+049922280007+051252840006+053067240007+054397800006+056212200007+057542760006+059357160007+060687720006+062562600007+063832680006+065707560007+067038120006+068852520007+070183080006+071997480007+073328040006+075142440007+076473000006+078287400007+079617960006+081432360007+082823400006+084637800007+085968360006+087782760007+089113320006+090927720007+092258280006+094133160007+095403240006+097278120007+098548200006+100423080007+101753640006+103568040007+104898600006+106713000007+108043560006+109918440007+111188520006+113063400007+114333480006+116208360007+117478440006+119353320007+120683880006+122498280007+123828840006+125643240007+126973800006+128848680007+130118760006+131993640007+133263720006+135138600007+136469160006+138283560007+139614120006+141428520007+142759080006+144573480007+145904040006+147778920007+149049000006+150923880007+152193960006+154068840007+155399400006+157213800007+158544360006+160358760007+161689320006+163564200007+164834280006+166709160007+167979240006+169854120007+171184680006+172999080007+174329640006+176144040007+177474600006+179289000007+180619560006+182494440007+183764520006+185639400007+186909480006+188784360007+190114920006+191929320007+193259880006+195074280007+196404840006+198279720007+199549800006+201424680007+202694760006+204569640007+205839720006+207714600007+209045160006+210859560007+212190120006+214004520007"],
    [tt |-> "-03600+00000-01  ",
     at |-> ""],
    [tt |-> "-36000+00000-10  ",
     at |-> ""],
    [tt |-> "-39600+00000-11  ",
     at |-> ""],
    [tt |-> "-43200+00000-12  ",
     at |-> ""],
    [tt |-> "-07200+00000-02  ",
     at |-> ""],
    [tt |-> "-10800+00000-03  ",
     at |-> ""],
    [tt |-> "-14400+00000-04  ",
     at |-> ""],
    [tt |-> "-18000+00000-05  ",
     at |-> ""],
    [tt |-> "-21600+00000-06  ",
     at |-> ""],
    [tt |-> "-25200+00000-07  ",
     at |-> ""],
    [tt |-> "-28800+00000-08  ",
     at |-> ""],
    [tt |-> "-32400+00000-09  ",
     at |-> ""],
    [tt |-> "+03600+00000+01  ",
     at |-> ""],
    [tt |-> "+36000+00000+10  ",
     at |-> ""],
    [tt |-> "+39600+00000+11  ",
     at |-> ""],
    [tt |-> "+43200+00000+12  ",
     at |-> ""],
    [tt |-> "+46800+00000+13  ",
     at |-> ""],
    [tt |-> "+50400+00000+14  ",
     at |-> ""],
    [tt |-> "+07200+00000+02  ",
     at |-> ""],
    [tt |-> "+10800+00000+03  ",
     at |-> ""],
    [tt |-> "+14400+00000+04  ",
     at |-> ""],
    [tt |-> "+18000+00000+05  ",
     at |-> ""],
    [tt |-> "+21600+00000+06  ",
     at |-> ""],
    [tt |-> "+25200+00000+07  ",
     at |-> ""],
    [tt |-> "+28800+00000+08  ",
     at |-> ""],
    [tt |-> "+32400+00000+09  ",
     at |-> ""],
    [tt |-> "+00000+00000UTC  ",
     at |-> ""],
    [tt |-> "+01200+00000AMT  +04800+03600NST  +04800+03600+0120+01200+00000+0020+07200+06000CEST +03600+00000CET  +07200+03600CEST ",
     at |-> "-169370037202-168048477201-166345317202-165014757201-163321317202-161748837201-160115877202-158603877201-156970917202-155458917201-153825957202-152313957201-150750117202-149056677201-147017637202-145911717201-144399717202-142766757201-140667237202-139621797201-137695077202-136476837201-134541477202-133331877201-131379237202-130126437201-128225637202-126981477201-125072037202-123836517201-121918437202-120691557201-118695717202-117546597201-115602597202-114341157201-112448997202-111196197201-109295397202-108051237201-106133157202-104906277201-102919077202-102574557203-101761320004-099825960003-098616360004-096672360003-095410920004-093502200005-085725720006-084455640007-082822680006-081250200007-079677720006-078105240007-076662360006+022887720007+024399720006+026032680007+027605160006+029177640007+030750120006+032383080007+033895080006+035467560007+037040040006+038612520007+040185000006+041757480007+043329960006+044902440007+046535400006+048107880007+049680360006+051252840007+052825320006+054397800007+055970280006+057542760007+059115240006+060687720007+062260200006+063832680007+065465640006+067038120007+068610600006+070183080007+071755560006+073328040007+074900520006+076473000007+078045480006+079617960007+081190440006+082823400007+084637800006+085968360007+087782760006+089113320007+090927720006+092258280007+094133160006+095403240007+097278120006+098548200007+100423080006+101753640007+103568040006+104898600007+106713000006+108043560007+109918440006+111188520007+113063400006+114333480007+116208360006+117478440007+119353320006+120683880007+122498280006+123828840007+125643240006+126973800007+128848680006+130118760007+131993640006+133263720007+135138600006+136469160007+138283560006+139614120007+141428520006+142759080007+144573480006+145904040007+147778920006+149049000007+150923880006+152193960007+154068840006+155399400007+157213800006+158544360007+160358760006+161689320007+163564200006+164834280007+166709160006+167979240007+169854120006+171184680007+172999080006+174329640007+176144040006+177474600007+179289000006+180619560007+182494440006+183764520007+185639400006+186909480007+188784360006+190114920007+191929320006+193259880007+195074280006+196404840007+198279720006+199549800007+201424680006+202694760007+204569640006+205839720007+207714600006+209045160007+210859560006+212190120007+214004520006"],
    [tt |-> "+00000+00000WET  +03600+00000CET  +07200+03600CEST ",
     at |-> "-073388160002+048107880003+049680360002+051252840003+052825320002+054397800003+055970280002+057542760003+059115240002+060687720003+062260200002+063832680003+065465640002+067038120003+068610600002+070183080003+071755560002+073328040003+074900520002+076473000003+078045480002+079617960003+081190440002+082823400003+084637800002+085968360003+087782760002+089113320003+090927720002+092258280003+094133160002+095403240003+097278120002+098548200003+100423080002+101753640003+103568040002+104898600003+106713000002+108043560003+109918440002+111188520003+113063400002+114333480003+116208360002+117478440003+119353320002+120683880003+122498280002+123828840003+125643240002+126973800003+128848680002+130118760003+131993640002+133263720003+135138600002+136469160003+138283560002+139614120003+141428520002+142759080003+144573480002+145904040003+147778920002+149049000003+150923880002+152193960003+154068840002+155399400003+157213800002+158544360003+160358760002+161689320003+163564200002+164834280003+166709160002+167979240003+169854120002+171184680003+172999080002+174329640003+176144040002+177474600003+179289000002+180619560003+182494440002+183764520003+185639400002+186909480003+188784360002+190114920003+191929320002+193259880003+195074280002+196404840003+198279720002+199549800003+201424680002+202694760003+204569640002+205839720003+207714600002+209045160003+210859560002+212190120003+214004520002"],
    [tt |-> "+11520+00000LMT  +10800+00000+03  +14400+00000+04  +18000+03600+05  +14400+03600+04  ",
     at |-> "-144124993202-124754040003+035491680004+037072440003+038645280004+040226040003+041798880004+043379640003+044961120004+046534320003+048106800004+049679280003+051251760004+052824240003+054396720004+055969200003+057541680004+059114160003+060686640005+062259480002+063831960005+065464920002+067037400003+070182000005+071754840002+073327320005+074899800002+076472280005+078044760002+079617240005+081189720002+082822680005+084637080002+085967640005+087782040002+089112600005+090927000002+092257560005+094132440002+095402520005+097277400002+098547480005+100422360002+101752920005+103567320002+104897880005+106712280002+108042840005+109917720002+111187800005+113062680002+114332760005+116207640002+117477720005+119352600002+120683160005+122497560002+123828120005+125642520002+126973080005+128847960002+130118040003+141427440002+145903320003+214748364703"],
    [tt |-> "+00000+00000GMT  +03600+03600BST  +07200+07200BDST +03600+00000BST  ",
     at |-> "-169196400002-168047280001-166414320002-165014640001-163390320002-161748720001-160184880002-158603760001-157039920002-155216880001-153834480002-152253360001-150750000002-149056560001-147363120002-146093040001-144278640002-142887600001-141073200002-139621680001-137928240002-136476720001-134843760002-133331760001-131577840002-130126320001-128432880002-126981360001-125348400002-123836400001-122142960002-120691440001-118998000002-117546480001-115913520002-114341040001-112647600002-111196080001-109563120002-108051120001-106357680002-104906160001-103212720002-101761200001-100128240002-098616240001-096922800002-095047920001-094201200002-090451800003-089605080002-087548760003-086460120002-084403800003-083254680002-081258840003-079807320002-078105240003-077206680002-076480560001-074847600002-073335600001-071944560002-071703000003-070674840002-069948720001-068799600002-066803760001-065473200002-063658800001-062207280002-060574320001-059062320002-057429360001-055856880002-054223920001-052711920002-051260400001-049627440002-048115440001-046422000002-044970480001-043216560002-041765040001-040132080002-038620080001-036926640002-035475120001-033781680002-032330160001-030697200002-029185200001-027673200002-025798320001-024528240002-022653360001-021322800002-019508400001-018238320002-016363440001-015093360002-013218480001-011948400002-010073520001-008803440002-006868080001-005900400002-003724200004+005772240001+006981840002+008917200001+010126800002+012062160001+013271760002+015207120001+016416720002+018352080001+019622160002+021497040001+022767120002+024642000001+025912080002+027847440001+029057040002+030992400001+032202000002+034137360001+035467560002+037281960001+038612520002+040426920001+041757480002+043571880001+044902440002+046777320001+048107880002+049922280001+051252840002+053067240001+054397800002+056212200001+057542760002+059357160001+060687720002+062562600001+063832680002+065707560001+067038120002+068852520001+070183080002+071997480001+073328040002+075142440001+076473000002+078287400001+079617960002+081432360001+082823400002+084637800001+085968360002+087782760001+089113320002+090927720001+092258280002+094133160001+095403240002+097278120001+098548200002+100423080001+101753640002+103568040001+104898600002+106713000001+108043560002+109918440001+111188520002+113063400001+114333480002+116208360001+117478440002+119353320001+120683880002+122498280001+123828840002+125643240001+126973800002+128848680001+130118760002+131993640001+133263720002+135138600001+136469160002+138283560001+139614120002+141428520001+142759080002+144573480001+145904040002+147778920001+149049000002+150923880001+152193960002+154068840001+155399400002+157213800001+158544360002+160358760001+161689320002+163564200001+164834280002+166709160001+167979240002+169854120001+171184680002+172999080001+174329640002+176144040001+177474600002+179289000001+180619560002+182494440001+183764520002+185639400001+186909480002+188784360001+190114920002+191929320001+193259880002+195074280001+196404840002+198279720001+199549800002+201424680001+202694760002+204569640001+205839720002+207714600001+209045160002+210859560001+212190120002+214004520001"],
    [tt |-> "+03600+00000CET  +07200+03600CEST ",
     at |-> "-090582480002-085725720001-084455640002-082822680001-081250200002-079677720001-077794200002-076662360001+041757480002+043329960001+044902440002+046535400001+048107880002+049680360001+051252840002+052825320001+054397800002+055970280001+057542760002+059115240001+060687720002+062260200001+063832680002+065465640001+067038120002+068610600001+070183080002+071755560001+073328040002+074900520001+076473000002+078045480001+079617960002+081190440001+082823400002+084637800001+085968360002+087782760001+089113320002+090927720001+092258280002+094133160001+095403240002+097278120001+098548200002+100423080001+101753640002+103568040001+104898600002+106713000001+108043560002+109918440001+111188520002+113063400001+114333480002+116208360001+117478440002+119353320001+120683880002+122498280001+123828840002+125643240001+126973800002+128848680001+130118760002+131993640001+133263720002+135138600001+136469160002+138283560001+139614120002+141428520001+142759080002+144573480001+145904040002+147778920001+149049000002+150923880001+152193960002+154068840001+155399400002+157213800001+158544360002+160358760001+161689320002+163564200001+164834280002+166709160001+167979240002+169854120001+171184680002+172999080001+174329640002+176144040001+177474600002+179289000001+180619560002+182494440001+183764520002+185639400001+186909480002+188784360001+190114920002+191929320001+193259880002+195074280001+196404840002+198279720001+199549800002+201424680001+202694760002+204569640001+205839720002+207714600001+209045160002+210859560001+212190120002+214004520001"],
    [tt |-> "+03600+00000CET  +07200+03600CEST +00000-03600GMT  ",
     at |-> "-169370640002-168048360001-166345560002-165015000001-163200600002-161870040001-093890520002-085725720001-084455640002-082822680001-081250200002-079677720001-078105240002-076532760001-074657880002-073335960001-072851760003-072126000001-071642520002-070191000001-068497560002-067046040001-065421720002-063901080001+029177640002+030750120001+032383080002+033895080001+035467560002+037040040001+038612520002+040185000001+041757480002+043329960001+044902440002+046535400001+048107880002+049680360001+051252840002+052825320001+054397800002+055970280001+057542760002+059115240001+060687720002+062260200001+063832680002+065465640001+067038120002+068610600001+070183080002+071755560001+073328040002+074900520001+076473000002+078045480001+079617960002+081190440001+082823400002+084637800001+085968360002+087782760001+089113320002+090927720001+092258280002+094133160001+095403240002+097278120001+098548200002+100423080001+101753640002+103568040001+104898600002+106713000001+108043560002+109918440001+111188520002+113063400001+114333480002+116208360001+117478440002+119353320001+120683880002+122498280001+123828840002+125643240001+126973800002+128848680001+130118760002+131993640001+133263720002+135138600001+136469160002+138283560001+139614120002+141428520001+142759080002+144573480001+145904040002+147778920001+149049000002+150923880001+152193960002+154068840001+155399400002+157213800001+158544360002+160358760001+161689320002+163564200001+164834280002+166709160001+167979240002+169854120001+171184680002+172999080001+174329640002+176144040001+177474600002+179289000001+180619560002+182494440001+183764520002+185639400001+186909480002+188784360001+190114920002+191929320001+193259880002+195074280001+196404840002+198279720001+199549800002+201424680001+202694760002+204569640001+205839720002+207714600001+209045160002+210859560001+212190120002+214004520001"],
    [tt |-> "+06240+00000BMT  +07200+00000EET  +10800+03600EEST ",
     at |-> "-121314866402-118705680003-117547920002-115975440003-114402960002-112770000003-111197520002-109625040003-108052560002-106480080003-104907600002-103335120003-101762640002-100190160003-098617680002-097045200003-095472720002+029660400003+030748680002+032381640003+033894000002+035467200003+037039680002+038612160003+040184640002+041757120003+043329600002+044902080003+046535040002+048107520003+049680000002+051252480003+052824960002+054397440003+055969920002+057542400003+059114880002+060687360003+062259840002+063832320003+065465280002+067037040003+068609520002+070182000003+071754480002+073326960003+074899440002+076471920003+078044040002+079616880003+081189000002+082822320003+084636360002+085968360003+087782760002+089113320003+090927720002+092258280003+094133160002+095403240003+097278120002+098548200003+100423080002+101753640003+103568040002+104898600003+106713000002+108043560003+109918440002+111188520003+113063400002+114333480003+116208360002+117478440003+119353320002+120683880003+122498280002+123828840003+125643240002+126973800003+128848680002+130118760003+131993640002+133263720003+135138600002+136469160003+138283560002+139614120003+141428520002+142759080003+144573480002+145904040003+147778920002+149049000003+150923880002+152193960003+154068840002+155399400003+157213800002+158544360003+160358760002+161689320003+163564200002+164834280003+166709160002+167979240003+169854120002+171184680003+172999080002+174329640003+176144040002+177474600003+179289000002+180619560003+182494440002+183764520003+185639400002+186909480003+188784360002+190114920003+191929320002+193259880003+195074280002+196404840003+198279720002+199549800003+201424680002+202694760003+204569640002+205839720003+207714600002+209045160003+210859560002+212190120003+214004520002"],
    [tt |-> "+03600+00000CET  +07200+03600CEST ",
     at |-> "-169370640002-168048360001-166345560002-165015000001-163200600002-161870040001-160047000002-158725080001-156971160002-155519640001-090677520002-085725720001-084455640002-082822680001-081250200002-079677720001-077847120002-076265640001-074968920002-073327680001-071763480002-070191000001-068618520002-067046040001-065413080002-063901080001-049265640002-048116880001-046119960002-044970840001-042854040002-041825880001-039709080002-038680920001+032382360002+033894360001+035466840002+037039320001+038611800002+040184280001+041756760002+043329240001+044902440002+046535400001+048107880002+049680360001+051252840002+052825320001+054397800002+055970280001+057542760002+059115240001+060687720002+062260200001+063832680002+065465640001+067038120002+068610600001+070183080002+071755560001+073328040002+074900520001+076473000002+078045480001+079617960002+081190440001+082823400002+084637800001+085968360002+087782760001+089113320002+090927720001+092258280002+094133160001+095403240002+097278120001+098548200002+100423080001+101753640002+103568040001+104898600002+106713000001+108043560002+109918440001+111188520002+113063400001+114333480002+116208360001+117478440002+119353320001+120683880002+122498280001+123828840002+125643240001+126973800002+128848680001+130118760002+131993640001+133263720002+135138600001+136469160002+138283560001+139614120002+141428520001+142759080002+144573480001+145904040002+147778920001+149049000002+150923880001+152193960002+154068840001+155399400002+157213800001+158544360002+160358760001+161689320002+163564200001+164834280002+166709160001+167979240002+169854120001+171184680002+172999080001+174329640002+176144040001+177474600002+179289000001+180619560002+182494440001+183764520002+185639400001+186909480002+188784360001+190114920002+191929320001+193259880002+195074280001+196404840002+198279720001+199549800002+201424680001+202694760002+204569640001+205839720002+207714600001+209045160002+210859560001+212190120002+214004520001"],
    [tt |-> "+03600+00000CET  +07200+03600CEST ",
     at |-> "-090443520002-089112960001-087298560002-085968000001+035467560002+037040040001+038612520002+040185000001+041757480002+043329960001+044902440002+046535400001+048107880002+049680360001+051252840002+052825320001+054397800002+055970280001+057542760002+059115240001+060687720002+062260200001+063832680002+065465640001+067038120002+068610600001+070183080002+071755560001+073328040002+074900520001+076473000002+078045480001+079617960002+081190440001+082823400002+084637800001+085968360002+087782760001+089113320002+090927720001+092258280002+094133160001+095403240002+097278120001+098548200002+100423080001+101753640002+103568040001+104898600002+106713000001+108043560002+109918440001+111188520002+113063400001+114333480002+116208360001+117478440002+119353320001+120683880002+122498280001+123828840002+125643240001+126973800002+128848680001+130118760002+131993640001+133263720002+135138600001+136469160002+138283560001+139614120002+141428520001+142759080002+144573480001+145904040002+147778920001+149049000002+150923880001+152193960002+154068840001+155399400002+157213800001+158544360002+160358760001+161689320002+163564200001+164834280002+166709160001+167979240002+169854120001+171184680002+172999080001+174329640002+176144040001+177474600002+179289000001+180619560002+182494440001+183764520002+185639400001+186909480002+188784360001+190114920002+191929320001+193259880002+195074280001+196404840002+198279720001+199549800002+201424680001+202694760002+204569640001+205839720002+207714600001+209045160002+210859560001+212190120002+214004520001"],
    [tt |-> "+06900+00000CMT  +06240+00000BMT  +07200+00000EET  +10800+03600EEST +07200+03600CEST +03600+00000CET  +10800+00000MSK  +14400+03600MSD  ",
     at |-> "-163711410002-121314866403-118705680004-117547920003-115975440004-114402960003-112770000004-111197520003-109625040004-108052560003-106480080004-104907600003-103335120004-101762640003-100190160004-098617680003-097045200004-095472720003-092716560004-089813880005-085725720006-084455640005-082822680006-081250200005-080015760007+035492040008+037072800007+038645640008+040226400007+041799240008+043380000007+044961480008+046534680007+048107160008+049679640007+051252120008+052824600007+054397080008+055969560007+057542040008+059114520007+060687000008+062259480007+063831960008+064194480004+065465280003+067037760004+068610240003+070182000004+071754120003+073326960004+074899080003+076471920004+078044040003+079616880004+081189000003+082822320004+084636360003+085968000004+087782400003+089112960004+090927360003+092257920004+094132800003+095402880004+097277760003+098547840004+100422720003+101753280004+103567680003+104898240004+106712640003+108043200004+109918080003+111188160004+113063040003+114333120004+116208000003+117478080004+119352960003+120683520004+122497920003+123828480004+125642880003+126973440004+128848320003+130118400004+131993280003+133263360004+135138240003+136468800004+138283200003+139613760004+141428160003+142758720004+144573120003+145903680004+147778560003+149048640004+150923520003+152193600004+154068480003+155399040004+157213440003+158544000004+160358400003+161688960004+163563840003+164833920004+166708800003+167978880004+169853760003+171184320004+172998720003+174329280004+176143680003+177474240004+179288640003+180619200004+182494080003+183764160004+185639040003+186909120004+188784000003+190114560004+191928960003+193259520004+195073920003+196404480004+198279360003+199549440004+201424320003+202694400004+204569280003+205839360004+207714240003+209044800004+210859200003+212189760004+214004160003"],
    [tt |-> "+03600+00000CET  +07200+03600CEST ",
     at |-> "-169249680002-168049080001-093511080002-085725720001-084455640002-082822680001-081250200002-079677720001-078105240002-076938840001-074701080002-073638360001-071521560002-070674840001-068316120002-067529880001+032383080002+033895080001+035467560002+037040040001+038612520002+040185000001+041757480002+043329960001+044902440002+046535400001+048107880002+049680360001+051252840002+052825320001+054397800002+055970280001+057542760002+059115240001+060687720002+062260200001+063832680002+065465640001+067038120002+068610600001+070183080002+071755560001+073328040002+074900520001+076473000002+078045480001+079617960002+081190440001+082823400002+084637800001+085968360002+087782760001+089113320002+090927720001+092258280002+094133160001+095403240002+097278120001+098548200002+100423080001+101753640002+103568040001+104898600002+106713000001+108043560002+109918440001+111188520002+113063400001+114333480002+116208360001+117478440002+119353320001+120683880002+122498280001+123828840002+125643240001+126973800002+128848680001+130118760002+131993640001+133263720002+135138600001+136469160002+138283560001+139614120002+141428520001+142759080002+144573480001+145904040002+147778920001+149049000002+150923880001+152193960002+154068840001+155399400002+157213800001+158544360002+160358760001+161689320002+163564200001+164834280002+166709160001+167979240002+169854120001+171184680002+172999080001+174329640002+176144040001+177474600002+179289000001+180619560002+182494440001+183764520002+185639400001+186909480002+188784360001+190114920002+191929320001+193259880002+195074280001+196404840002+198279720001+199549800002+201424680001+202694760002+204569640001+205839720002+207714600001+209045160002+210859560001+212190120002+214004520001"],
    [tt |-> "+00000+00000GMT  +03600+03600BST  +07200+07200BDST +03600+00000CET  +07200+03600CEST ",
     at |-> "-169196400002-168047280001-166414320002-165014640001-163390320002-161748720001-160184880002-158603760001-157039920002-155216880001-153834480002-152253360001-150750000002-149056560001-147363120002-146093040001-144278640002-142887600001-141073200002-139621680001-137928240002-136476720001-134843760002-133331760001-131577840002-130126320001-128432880002-126981360001-125348400002-123836400001-122142960002-120691440001-118998000002-117546480001-115913520002-114341040001-112647600002-111196080001-109563120002-108051120001-106357680002-104906160001-103212720002-101761200001-100128240002-098616240001-096922800002-095047920001-094201200002-090451800003-089605080002-087548760003-086460120002-084403800003-083254680002-081258840003-079807320002-078105240003-077206680002-076480560001-074847600002-073335600001-071944560002-071703000003-070674840002-069948720001-068799600002-066803760001-065473200002-063658800001-062207280002-060574320001-059062320002-057429360001-055856880002-054223920001-052711920002-051260400001-049627440002-048115440001-046422000002-044970480001-043216560002-041765040001-040132080004+038612520005+040185000004+041757480005+043329960004+044902440005+046535400004+048107880005+049680360004+051252840005+052825320004+054397800005+055970280004+057542760005+059115240004+060687720005+062260200004+063832680005+065465640004+067038120005+068610600004+070183080005+071755560004+073328040005+074900520004+076473000005+078045480004+079617960005+081190440004+082823400005+084637800004+085968360005+087782760004+089113320005+090927720004+092258280005+094133160004+095403240005+097278120004+098548200005+100423080004+101753640005+103568040004+104898600005+106713000004+108043560005+109918440004+111188520005+113063400004+114333480005+116208360004+117478440005+119353320004+120683880005+122498280004+123828840005+125643240004+126973800005+128848680004+130118760005+131993640004+133263720005+135138600004+136469160005+138283560004+139614120005+141428520004+142759080005+144573480004+145904040005+147778920004+149049000005+150923880004+152193960005+154068840004+155399400005+157213800004+158544360005+160358760004+161689320005+163564200004+164834280005+166709160004+167979240005+169854120004+171184680005+172999080004+174329640005+176144040004+177474600005+179289000004+180619560005+182494440004+183764520005+185639400004+186909480005+188784360004+190114920005+191929320004+193259880005+195074280004+196404840005+198279720004+199549800005+201424680004+202694760005+204569640004+205839720005+207714600004+209045160005+210859560004+212190120005+214004520004"],
    [tt |-> "-00600+00000LMT  +00000+00000GMT  +03600+03600BST  +07200+07200CEST +03600+00000CET  +07200+03600CEST +07200+03600BDST +07200+07200BDST +03600+00000BST  ",
     at |-> "-178424579102-169196400003-168047280002-166414320003-165014640002-163390320003-161748720002-160184880003-158603760002-157039920003-155216880002-153834480003-152253360002-150750000003-149056560002-147363120003-146093040002-144278640003-142887600002-141073200003-139621680002-137928240003-136476720002-134843760003-133331760002-131577840003-130126320002-128432880003-126981360002-125348400003-123836400002-122142960003-120691440002-118998000003-117546480002-115913520003-114341040002-112647600003-111196080002-109563120003-108051120002-106357680003-104906160002-103212720003-101761200002-100128240003-098616240002-096922800003-095047920002-094201200003-093096360004-085725720005-084455640006-082822680005-081250200006-079677720005-078105240006-077795280007-077206680003-076480560002-074847600003-073335600002-071944560003-071703000008-070674840003-069948720002-068799600003-066803760002-065473200003-063658800002-062207280003-060574320002-059062320003-057429360002-055856880003-054223920002-052711920003-051260400002-049627440003-048115440002-046422000003-044970480002-043216560003-041765040002-040132080003-038620080002-036926640003-035475120002-033781680003-032330160002-030697200003-029185200002-027673200003-025798320002-024528240003-022653360002-021322800003-019508400002-018238320003-016363440002-015093360003-013218480002-011948400003-010073520002-008803440003-006868080002-005900400003-003724200009+005772240002+006981840003+008917200002+010126800003+012062160002+013271760003+015207120002+016416720003+018352080002+019622160003+021497040002+022767120003+024642000002+025912080003+027847440002+029057040003+030992400002+032202000003+034137360002+035467560003+037281960002+038612520003+040426920002+041757480003+043571880002+044902440003+046777320002+048107880003+049922280002+051252840003+053067240002+054397800003+056212200002+057542760003+059357160002+060687720003+062562600002+063832680003+065707560002+067038120003+068852520002+070183080003+071997480002+073328040003+075142440002+076473000003+078287400002+079617960003+081432360002+082823400003+084637800002+085968360003+087782760002+089113320003+090927720002+092258280003+094133160002+095403240003+097278120002+098548200003+100423080002+101753640003+103568040002+104898600003+106713000002+108043560003+109918440002+111188520003+113063400002+114333480003+116208360002+117478440003+119353320002+120683880003+122498280002+123828840003+125643240002+126973800003+128848680002+130118760003+131993640002+133263720003+135138600002+136469160003+138283560002+139614120003+141428520002+142759080003+144573480002+145904040003+147778920002+149049000003+150923880002+152193960003+154068840002+155399400003+157213800002+158544360003+160358760002+161689320003+163564200002+164834280003+166709160002+167979240003+169854120002+171184680003+172999080002+174329640003+176144040002+177474600003+179289000002+180619560003+182494440002+183764520003+185639400002+186909480003+188784360002+190114920003+191929320002+193259880003+195074280002+196404840003+198279720002+199549800003+201424680002+202694760003+204569640002+205839720003+207714600002+209045160003+210859560002+212190120003+214004520002"],
    [tt |-> "+06000+00000HMT  +07200+00000EET  +10800+03600EEST ",
     at |-> "-153593878902-087567120003-085977360002+035467200003+037039680002+038612160003+040184640002+041757480003+043329960002+044902440003+046535400002+048107880003+049680360002+051252840003+052825320002+054397800003+055970280002+057542760003+059115240002+060687720003+062260200002+063832680003+065465640002+067038120003+068610600002+070183080003+071755560002+073328040003+074900520002+076473000003+078045480002+079617960003+081190440002+082823400003+084637800002+085968360003+087782760002+089113320003+090927720002+092258280003+094133160002+095403240003+097278120002+098548200003+100423080002+101753640003+103568040002+104898600003+106713000002+108043560003+109918440002+111188520003+113063400002+114333480003+116208360002+117478440003+119353320002+120683880003+122498280002+123828840003+125643240002+126973800003+128848680002+130118760003+131993640002+133263720003+135138600002+136469160003+138283560002+139614120003+141428520002+142759080003+144573480002+145904040003+147778920002+149049000003+150923880002+152193960003+154068840002+155399400003+157213800002+158544360003+160358760002+161689320003+163564200002+164834280003+166709160002+167979240003+169854120002+171184680003+172999080002+174329640003+176144040002+177474600003+179289000002+180619560003+182494440002+183764520003+185639400002+186909480003+188784360002+190114920003+191929320002+193259880003+195074280002+196404840003+198279720002+199549800003+201424680002+202694760003+204569640002+205839720003+207714600002+209045160003+210859560002+212190120003+214004520002"],
    [tt |-> "+00000+00000GMT  +03600+03600BST  +07200+07200CEST +03600+00000CET  +07200+03600CEST +07200+03600BDST +07200+07200BDST +03600+00000BST  ",
     at |-> "-169196400002-168047280001-166414320002-165014640001-163390320002-161748720001-160184880002-158603760001-157039920002-155216880001-153834480002-152253360001-150750000002-149056560001-147363120002-146093040001-144278640002-142887600001-141073200002-139621680001-137928240002-136476720001-134843760002-133331760001-131577840002-130126320001-128432880002-126981360001-125348400002-123836400001-122142960002-120691440001-118998000002-117546480001-115913520002-114341040001-112647600002-111196080001-109563120002-108051120001-106357680002-104906160001-103212720002-101761200001-100128240002-098616240001-096922800002-095047920001-094201200002-093096360003-085725720004-084455640005-082822680004-081250200005-079677720004-078105240005-077795280006-077206680002-076480560001-074847600002-073335600001-071944560002-071703000007-070674840002-069948720001-068799600002-066803760001-065473200002-063658800001-062207280002-060574320001-059062320002-057429360001-055856880002-054223920001-052711920002-051260400001-049627440002-048115440001-046422000002-044970480001-043216560002-041765040001-040132080002-038620080001-036926640002-035475120001-033781680002-032330160001-030697200002-029185200001-027673200002-025798320001-024528240002-022653360001-021322800002-019508400001-018238320002-016363440001-015093360002-013218480001-011948400002-010073520001-008803440002-006868080001-005900400002-003724200008+005772240001+006981840002+008917200001+010126800002+012062160001+013271760002+015207120001+016416720002+018352080001+019622160002+021497040001+022767120002+024642000001+025912080002+027847440001+029057040002+030992400001+032202000002+034137360001+035467560002+037281960001+038612520002+040426920001+041757480002+043571880001+044902440002+046777320001+048107880002+049922280001+051252840002+053067240001+054397800002+056212200001+057542760002+059357160001+060687720002+062562600001+063832680002+065707560001+067038120002+068852520001+070183080002+071997480001+073328040002+075142440001+076473000002+078287400001+079617960002+081432360001+082823400002+084637800001+085968360002+087782760001+089113320002+090927720001+092258280002+094133160001+095403240002+097278120001+098548200002+100423080001+101753640002+103568040001+104898600002+106713000001+108043560002+109918440001+111188520002+113063400001+114333480002+116208360001+117478440002+119353320001+120683880002+122498280001+123828840002+125643240001+126973800002+128848680001+130118760002+131993640001+133263720002+135138600001+136469160002+138283560001+139614120002+141428520001+142759080002+144573480001+145904040002+147778920001+149049000002+150923880001+152193960002+154068840001+155399400002+157213800001+158544360002+160358760001+161689320002+163564200001+164834280002+166709160001+167979240002+169854120001+171184680002+172999080001+174329640002+176144040001+177474600002+179289000001+180619560002+182494440001+183764520002+185639400001+186909480002+188784360001+190114920002+191929320001+193259880002+195074280001+196404840002+198279720001+199549800002+201424680001+202694760002+204569640001+205839720002+207714600001+209045160002+210859560001+212190120002+214004520001"],
    [tt |-> "+03600+00000CET  +07200+03600CEST +07200+00000EET  +10800+03600EEST +10800+00000MSK  +14400+03600MSD  +10800+00000+03  ",
     at |-> "-169370640002-168048360001-166345560002-165015000001-163200600002-161870040001-093890520002-085725720001-084455640002-082822680001-081250200002-079677720001-078105240002-078037200003-077873040004-076266360003-074909520005+035492040006+037072800005+038645640006+040226400005+041799240006+043380000005+044961480006+046534680005+048107160006+049679640005+051252120006+052824600005+054397080006+055969560005+057542040006+059114520005+060687000004+062259840003+063832320004+065465280003+067037760004+068610240003+070182720004+071755200003+073327680004+074900160003+076472640004+078045120003+079617600004+081190080003+082823040004+084637440003+085968000004+087782400003+089112960004+090927360003+092257920004+094132800003+095402880004+097277760003+098547840004+100422720003+101753280004+103567680003+104898240004+106712640003+108043200004+109918080003+111188160004+113063040003+114333120004+116208000003+117478080004+119352960003+120683520004+122497920003+123828480004+125642880003+126973440004+128848320003+130118400007+141427800003"],
    [tt |-> "+07320+00000KMT  +07200+00000EET  +10800+00000MSK  +07200+03600CEST +03600+00000CET  +14400+03600MSD  +10800+03600EEST ",
     at |-> "-144115932402-124753680003-089252280004-085725720005-084455640004-082822680005-082538280003+035492040006+037072800003+038645640006+040226400003+041799240006+043380000003+044961480006+046534680003+048107160006+049679640003+051252120006+052824600003+054397080006+055969560003+057542040006+059114520003+060687000006+062259480003+063831960006+064678320007+068610240002+070182720007+071755200002+073327680007+074900160002+076472640007+078045120002+079617600007+081190080002+082823040007+084637800002+085968360007+087782760002+089113320007+090927720002+092258280007+094133160002+095403240007+097278120002+098548200007+100423080002+101753640007+103568040002+104898600007+106713000002+108043560007+109918440002+111188520007+113063400002+114333480007+116208360002+117478440007+119353320002+120683880007+122498280002+123828840007+125643240002+126973800007+128848680002+130118760007+131993640002+133263720007+135138600002+136469160007+138283560002+139614120007+141428520002+142759080007+144573480002+145904040007+147778920002+149049000007+150923880002+152193960007+154068840002+155399400007+157213800002+158544360007+160358760002+161689320007+163564200002+164834280007+166709160002+167979240007+169854120002+171184680007+172999080002+174329640007+176144040002+177474600007+179289000002+180619560007+182494440002+183764520007+185639400002+186909480007+188784360002+190114920007+191929320002+193259880007+195074280002+196404840007+198279720002+199549800007+201424680002+202694760007+204569640002+205839720007+207714600002+209045160007+210859560002+212190120007+214004520002"],
    [tt |-> "+11940+00000LMT  +10800+00000+03  +14400+00000+04  +18000+03600+05  +14400+03600MSD  +10800+00000MSK  +14400+00000MSK  ",
     at |-> "-159382080002-124754040003+035491680004+037072440003+038645280004+040226040003+041798880004+043379640003+044961120004+046534320003+048106800004+049679280003+051251760004+052824240003+054396720004+055969200003+057541680004+059114160003+060686640005+062259480006+063831960005+065464920006+067037400003+070182000005+071754840006+073327320005+074899800006+076472280005+078044760006+079617240005+081189720006+082822680005+084637080006+085967640005+087782040006+089112600005+090927000006+092257560005+094132440006+095402520005+097277400006+098547480005+100422360006+101752920005+103567320006+104897880005+106712280006+108042840005+109917720006+111187800005+113062680006+114332760005+116207640006+117477720005+119352600006+120683160005+122497560006+123828120005+125642520006+126973080005+128847960006+130118040007+141427440006"],
    [tt |-> "-02220+00000LMT  +00000+00000WET  +03600+03600WEST +07200+07200WEMT +03600+00000CET  +07200+03600CEST ",
     at |-> "-183038400002-168955560003-167780160002-166743360003-164773800002-163589760003-161620200002-160436160003-158466600002-157273920003-155304360002-154120320003-152150760002-144245160003-142767720002-137929320003-136477800002-134844840003-133332840002-131639400003-130127400002-128433960003-126982440002-122144040003-120692520002-119120040003-117547560002-112769640003-111197160002-109685160003-108052200002-106358760003-104907240002-103334760003-101762280002-100250280003-098617320002-096923880003-095049000002-094202280003-092249640002-090694440003-089113320002-087730920003-087368400004-086400720003-085795560002-084585960003-084283920004-083134800003-082590120002-081441000003-081078480004-079989840003-079445160002-078296040003-077933520004-076844880003-076300200002-074909160003-073336680002-071763120003-070190640002-068618160003-067045680002-065473200003-063900720002-062328240003-060755760002-059183280003-057550320002-055977840003-054405360002-052832880003-051260400002-049687920003-048115440002-046542960003-044970480002-043398000003-041765040002-040192560003-038620080002-037047600003-035475120002-033902640003-032330160002-030757680003-029185200002-027612720003-026040240002-024467760003-022834800002-021262320003-019689840002-018117360003-016544880002-014972400003-013399920002-011827440003-010254960005+021254400002+022826880003+024399360002+026032680003+027605160002+029177640003+030750120002+032383080003+033895080002+035467200003+037039680002+038612160003+040184640002+041757120003+043329600002+044902080003+046535040002+048107520003+049680000002+051252840003+052825320002+054397800003+055970280002+057542760003+059115240002+060687720003+062260200002+063832680003+065465640002+067038120003+068610600002+070183080003+071755560005+073328040006+074900520005+076473000006+078045480005+079617960006+081190440005+082823400003+084637800002+085968360003+087782760002+089113320003+090927720002+092258280003+094133160002+095403240003+097278120002+098548200003+100423080002+101753640003+103568040002+104898600003+106713000002+108043560003+109918440002+111188520003+113063400002+114333480003+116208360002+117478440003+119353320002+120683880003+122498280002+123828840003+125643240002+126973800003+128848680002+130118760003+131993640002+133263720003+135138600002+136469160003+138283560002+139614120003+141428520002+142759080003+144573480002+145904040003+147778920002+149049000003+150923880002+152193960003+154068840002+155399400003+157213800002+158544360003+160358760002+161689320003+163564200002+164834280003+166709160002+167979240003+169854120002+171184680003+172999080002+174329640003+176144040002+177474600003+179289000002+180619560003+182494440002+183764520003+185639400002+186909480003+188784360002+190114920003+191929320002+193259880003+195074280002+196404840003+198279720002+199549800003+201424680002+202694760003+204569640002+205839720003+207714600002+209045160003+210859560002+212190120003+214004520002"],
    [tt |-> "+03600+00000CET  +07200+03600CEST ",
     at |-> "-090582480002-085725720001-084455640002-082822680001-081250200002-079677720001-078105240002-076662360001+041757480002+043329960001+044902440002+046535400001+048107880002+049680360001+051252840002+052825320001+054397800002+055970280001+057542760002+059115240001+060687720002+062260200001+063832680002+065465640001+067038120002+068610600001+070183080002+071755560001+073328040002+074900520001+076473000002+078045480001+079617960002+081190440001+082823400002+084637800001+085968360002+087782760001+089113320002+090927720001+092258280002+094133160001+095403240002+097278120001+098548200002+100423080001+101753640002+103568040001+104898600002+106713000001+108043560002+109918440001+111188520002+113063400001+114333480002+116208360001+117478440002+119353320001+120683880002+122498280001+123828840002+125643240001+126973800002+128848680001+130118760002+131993640001+133263720002+135138600001+136469160002+138283560001+139614120002+141428520001+142759080002+144573480001+145904040002+147778920001+149049000002+150923880001+152193960002+154068840001+155399400002+157213800001+158544360002+160358760001+161689320002+163564200001+164834280002+166709160001+167979240002+169854120001+171184680002+172999080001+174329640002+176144040001+177474600002+179289000001+180619560002+182494440001+183764520002+185639400001+186909480002+188784360001+190114920002+191929320001+193259880002+195074280001+196404840002+198279720001+199549800002+201424680001+202694760002+204569640001+205839720002+207714600001+209045160002+210859560001+212190120002+214004520001"],
    [tt |-> "+01500+00000LMT  +03600+00000CET  +07200+03600CEST +00000+00000WET  +03600+03600WEST +07200+07200WEST +03600+00000WET  +07200+03600WEST ",
     at |-> "-206971347602-169249680003-168048360002-166234320003-165015720002-163200600003-161870040002-161265960004-160427880005-158551920004-157403880005-155225880004-153999720005-152055000004-150751080005-149057280004-147364200005-145911960004-144400680005-142767360004-141186600005-139622400004-137929320005-136477440004-134844840005-133332480004-131639400005-130127040004-128433960005-126981360004-125348400005-123836400004-122142960005-120691440004-119118960005-117546480004-116034480005-114341040004-112768560005-111196080004-109684080005-108051120004-106357680005-104906160004-103333680005-101761200004-100249200005-098616240004-096922800005-095047920004-094201200005-093518640006-085725720007-084455640008-082822680007-081250200008-079798680002-078105240003-076662360002-074545560003-073327320002+022887720003+024399720002+026032680003+027605160002+029177640003+030750120002+032383080003+033895080002+035467560003+037040040002+038612520003+040185000002+041757480003+043329960002+044902440003+046535400002+048107880003+049680360002+051252840003+052825320002+054397800003+055970280002+057542760003+059115240002+060687720003+062260200002+063832680003+065465640002+067038120003+068610600002+070183080003+071755560002+073328040003+074900520002+076473000003+078045480002+079617960003+081190440002+082823400003+084637800002+085968360003+087782760002+089113320003+090927720002+092258280003+094133160002+095403240003+097278120002+098548200003+100423080002+101753640003+103568040002+104898600003+106713000002+108043560003+109918440002+111188520003+113063400002+114333480003+116208360002+117478440003+119353320002+120683880003+122498280002+123828840003+125643240002+126973800003+128848680002+130118760003+131993640002+133263720003+135138600002+136469160003+138283560002+139614120003+141428520002+142759080003+144573480002+145904040003+147778920002+149049000003+150923880002+152193960003+154068840002+155399400003+157213800002+158544360003+160358760002+161689320003+163564200002+164834280003+166709160002+167979240003+169854120002+171184680003+172999080002+174329640003+176144040002+177474600003+179289000002+180619560003+182494440002+183764520003+185639400002+186909480003+188784360002+190114920003+191929320002+193259880003+195074280002+196404840003+198279720002+199549800003+201424680002+202694760003+204569640002+205839720003+207714600002+209045160003+210859560002+212190120003+214004520002"],
    [tt |-> "+00000+00000WET  +03600+03600WEST +07200+07200WEMT +03600+00000CET  +07200+03600CEST ",
     at |-> "-163192680002-161688960001-160116840002-158535360001-144245160002-142767360001-137929320002-136477440001-134844840002-133332480001-131639040002-130127040001-128433960002-126982080001-102695400002-101761920001-100189800002-099948240003-098609040002-095411520001-094020840004-087307920005-086262120004-084283920005-082832040004-081138960005-079687080004-077994000005-076542120004-074849040005-073397160004-065232720005-063901800004+013512240005+015024600004+016657200005+018169560004+019681200005+021254040004+022886640005+024399000004+026032680005+027605160004+029177640005+030750120004+032383080005+033895080004+035467560005+037040040004+038612520005+040185000004+041757480005+043329960004+044902440005+046535400004+048107880005+049680360004+051252840005+052825320004+054397800005+055970280004+057542760005+059115240004+060687720005+062260200004+063832680005+065465640004+067038120005+068610600004+070183080005+071755560004+073328040005+074900520004+076473000005+078045480004+079617960005+081190440004+082823400005+084637800004+085968360005+087782760004+089113320005+090927720004+092258280005+094133160004+095403240005+097278120004+098548200005+100423080004+101753640005+103568040004+104898600005+106713000004+108043560005+109918440004+111188520005+113063400004+114333480005+116208360004+117478440005+119353320004+120683880005+122498280004+123828840005+125643240004+126973800005+128848680004+130118760005+131993640004+133263720005+135138600004+136469160005+138283560004+139614120005+141428520004+142759080005+144573480004+145904040005+147778920004+149049000005+150923880004+152193960005+154068840004+155399400005+157213800004+158544360005+160358760004+161689320005+163564200004+164834280005+166709160004+167979240005+169854120004+171184680005+172999080004+174329640005+176144040004+177474600005+179289000004+180619560005+182494440004+183764520005+185639400004+186909480005+188784360004+190114920005+191929320004+193259880005+195074280004+196404840005+198279720004+199549800005+201424680004+202694760005+204569640004+205839720005+207714600004+209045160005+210859560004+212190120005+214004520004"],
    [tt |-> "+03600+00000CET  +07200+03600CEST ",
     at |-> "-169076520002-168048720001-166475880002-164895120001-163512360002-161689680001-160427880002-158553360001-157101480002-155529360001-093243240002-085725720001-084455640002-082822680001-081258840002-079807320001-078105240002-076671720001-075089880002-073335960001-071945640002-070191720001-068920920002-067046040001-011405160002-010316880001-008199720002-007171560001-005054760002-004026600001-001849320002-000821160001+001295640002+002323800001+004380120002+005468760001+007585560002+008674200001+010238040002+011810520001+013573080002+014851800001+016718760002+018048960001+019863720002+021193920001+023008680002+024338880001+026153640002+027483840001+029298600002+030628800001+032331240002+033834240001+035467560002+037040040001+038612520002+040185000001+041757480002+043329960001+044902440002+046535400001+048107880002+049680360001+051252840002+052825320001+054397800002+055970280001+057542760002+059115240001+060687720002+062260200001+063832680002+065465640001+067038120002+068610600001+070183080002+071755560001+073328040002+074900520001+076473000002+078045480001+079617960002+081190440001+082823400002+084637800001+085968360002+087782760001+089113320002+090927720001+092258280002+094133160001+095403240002+097278120001+098548200002+100423080001+101753640002+103568040001+104898600002+106713000001+108043560002+109918440001+111188520002+113063400001+114333480002+116208360001+117478440002+119353320001+120683880002+122498280001+123828840002+125643240001+126973800002+128848680001+130118760002+131993640001+133263720002+135138600001+136469160002+138283560001+139614120002+141428520001+142759080002+144573480001+145904040002+147778920001+149049000002+150923880001+152193960002+154068840001+155399400002+157213800001+158544360002+160358760001+161689320002+163564200001+164834280002+166709160001+167979240002+169854120001+171184680002+172999080001+174329640002+176144040001+177474600002+179289000001+180619560002+182494440001+183764520002+185639400001+186909480002+188784360001+190114920002+191929320001+193259880002+195074280001+196404840002+198279720001+199549800002+201424680001+202694760002+204569640001+205839720002+207714600001+209045160002+210859560001+212190120002+214004520001"],
    [tt |-> "+06600+00000MMT  +07200+00000EET  +10800+00000MSK  +07200+03600CEST +03600+00000CET  +14400+03600MSD  +10800+03600EEST +10800+00000+03  ",
     at |-> "-144115860002-124753680003-089978040004-085725720005-084455640004-082822680005-081250200004-080465040003+035492040006+037072800003+038645640006+040226400003+041799240006+043380000003+044961480006+046534680003+048107160006+049679640003+051252120006+052824600003+054397080006+055969560003+057542040006+059114520003+060687000006+062259480003+067037400007+068610240002+070182720007+071755200002+073327680007+074900160002+076472640007+078045120002+079617600007+081190080002+082823040007+084637440002+085968000007+087782400002+089112960007+090927360002+092257920007+094132800002+095402880007+097277760002+098547840007+100422720002+101753280007+103567680002+104898240007+106712640002+108043200007+109918080002+111188160007+113063040002+114333120007+116208000002+117478080007+119352960002+120683520007+122497920002+123828480007+125642880002+126973440007+128848320002+130118400008+214748364708"],
    [tt |-> "+00540+00000PMT  +00000+00000WET  +03600+03600WEST +07200+07200WEMT +03600+00000CET  +07200+03600CEST ",
     at |-> "-185440376102-168981480003-168039720002-166536360003-164834280002-163512360003-161689320002-160427880003-158544360002-157403880003-155226600002-153999720003-152055720002-150751080003-149057640002-147061800003-145912680002-144400680003-142767720002-141195240003-139622760002-137929320003-136477800002-134844840003-133332840002-131639400003-130127400002-128433960003-126982440002-125349480003-123837480002-122144040003-120692520002-119120040003-117547560002-116035560003-114342120002-112769640003-111197160002-109685160003-108052200002-106358760003-104907240002-103334760003-101762280002-100250280003-098617320002-096923880003-095049000002-094201200003-090443880004-089113680003-087782760004-085725720003-084455640004-082822680003-081250200004-079626600003-078105240004-076662360005+019681920006+021254040005+022887720006+024399720005+026032680006+027605160005+029177640006+030750120005+032383080006+033895080005+035467560006+037040040005+038612520006+040185000005+041757480006+043329960005+044902440006+046535400005+048107880006+049680360005+051252840006+052825320005+054397800006+055970280005+057542760006+059115240005+060687720006+062260200005+063832680006+065465640005+067038120006+068610600005+070183080006+071755560005+073328040006+074900520005+076473000006+078045480005+079617960006+081190440005+082823400006+084637800005+085968360006+087782760005+089113320006+090927720005+092258280006+094133160005+095403240006+097278120005+098548200006+100423080005+101753640006+103568040005+104898600006+106713000005+108043560006+109918440005+111188520006+113063400005+114333480006+116208360005+117478440006+119353320005+120683880006+122498280005+123828840006+125643240005+126973800006+128848680005+130118760006+131993640005+133263720006+135138600005+136469160006+138283560005+139614120006+141428520005+142759080006+144573480005+145904040006+147778920005+149049000006+150923880005+152193960006+154068840005+155399400006+157213800005+158544360006+160358760005+161689320006+163564200005+164834280006+166709160005+167979240006+169854120005+171184680006+172999080005+174329640006+176144040005+177474600006+179289000005+180619560006+182494440005+183764520006+185639400005+186909480006+188784360005+190114920006+191929320005+193259880006+195074280005+196404840006+198279720005+199549800006+201424680005+202694760006+204569640005+205839720006+207714600005+209045160006+210859560005+212190120006+214004520005"],
    [tt |-> "+09000+00000MMT  +09060+00000MMT  +12660+03600MST  +16260+07200MDST +14400+05340MSD  +10800+00000MSK  +14400+03600MSD  +18000+07200+05  +07200+00000EET  +10800+03600EEST +14400+00000MSK  ",
     at |-> "-168826501702-165681907903-164135347902-162796507904-161871667903-159642907904-159382080005-158986080006-154242720007-153949320008-152532360007-152272800006-149118840009-124753680006+035492040007+037072800006+038645640007+040226400006+041799240007+043380000006+044961480007+046534680006+048107160007+049679640006+051252120007+052824600006+054397080007+055969560006+057542040007+059114520006+060687000007+062259480006+063831960007+065464920006+067037400010+068610240009+069577920006+070182360007+071754840006+073327320007+074899800006+076472280007+078044760006+079617240007+081189720006+082822680007+084637080006+085967640007+087782040006+089112600007+090927000006+092257560007+094132440006+095402520007+097277400006+098547480007+100422360006+101752920007+103567320006+104897880007+106712280006+108042840007+109917720006+111187800007+113062680006+114332760007+116207640006+117477720007+119352600006+120683160007+122497560006+123828120007+125642520006+126973080007+128847960006+130118040011+141427440006"],
    [tt |-> "+03600+00000CET  +07200+03600CEST ",
     at |-> "-169188480002-168057360001-092751120002-085725720001-084455640002-082822680001-081250200002-079677720001-078105240002-076532760001-034084440002-032451480001-030879000002-029306520001-027734040002-026161560001-024589080002-023016600001-021444120002-019871640001-018299160002-016666200001-014791320002-013521240001+032383080002+033895080001+035467560002+037040040001+038612520002+040185000001+041757480002+043329960001+044902440002+046535400001+048107880002+049680360001+051252840002+052825320001+054397800002+055970280001+057542760002+059115240001+060687720002+062260200001+063832680002+065465640001+067038120002+068610600001+070183080002+071755560001+073328040002+074900520001+076473000002+078045480001+079617960002+081190440001+082823400002+084637800001+085968360002+087782760001+089113320002+090927720001+092258280002+094133160001+095403240002+097278120001+098548200002+100423080001+101753640002+103568040001+104898600002+106713000001+108043560002+109918440001+111188520002+113063400001+114333480002+116208360001+117478440002+119353320001+120683880002+122498280001+123828840002+125643240001+126973800002+128848680001+130118760002+131993640001+133263720002+135138600001+136469160002+138283560001+139614120002+141428520001+142759080002+144573480001+145904040002+147778920001+149049000002+150923880001+152193960002+154068840001+155399400002+157213800001+158544360002+160358760001+161689320002+163564200001+164834280002+166709160001+167979240002+169854120001+171184680002+172999080001+174329640002+176144040001+177474600002+179289000001+180619560002+182494440001+183764520002+185639400001+186909480002+188784360001+190114920002+191929320001+193259880002+195074280001+196404840002+198279720001+199549800002+201424680001+202694760002+204569640001+205839720002+207714600001+209045160002+210859560001+212190120002+214004520001"],
    [tt |-> "+00540+00000PMT  +00000+00000WET  +03600+03600WEST +07200+07200CEST +03600+00000CET  +07200+03600CEST +07200+03600WEMT +03600+00000WEST ",
     at |-> "-185595896102-168981480003-168039720002-166536360003-164834280002-163512360003-161689320002-160427880003-158544360002-157403880003-155226600002-153999720003-152055720002-150751080003-149057640002-147061800003-145912680002-144400680003-142767720002-141195240003-139622760002-137929320003-136477800002-134844840003-133332840002-131639400003-130127400002-128433960003-126982440002-125349480003-123837480002-122144040003-120692520002-119120040003-117547560002-116035560003-114342120002-112769640003-111197160002-109685160003-108052200002-106358760003-104907240002-103334760003-101762280002-100250280003-098617320002-096923880003-095049000002-094201200003-093243600004-085725720005-084455640006-082822680005-081250200006-080007120007-079626600008-078105240007-076662360005+019681920006+021254040005+022887720006+024399720005+026032680006+027605160005+029177640006+030750120005+032383080006+033895080005+035467560006+037040040005+038612520006+040185000005+041757480006+043329960005+044902440006+046535400005+048107880006+049680360005+051252840006+052825320005+054397800006+055970280005+057542760006+059115240005+060687720006+062260200005+063832680006+065465640005+067038120006+068610600005+070183080006+071755560005+073328040006+074900520005+076473000006+078045480005+079617960006+081190440005+082823400006+084637800005+085968360006+087782760005+089113320006+090927720005+092258280006+094133160005+095403240006+097278120005+098548200006+100423080005+101753640006+103568040005+104898600006+106713000005+108043560006+109918440005+111188520006+113063400005+114333480006+116208360005+117478440006+119353320005+120683880006+122498280005+123828840006+125643240005+126973800006+128848680005+130118760006+131993640005+133263720006+135138600005+136469160006+138283560005+139614120006+141428520005+142759080006+144573480005+145904040006+147778920005+149049000006+150923880005+152193960006+154068840005+155399400006+157213800005+158544360006+160358760005+161689320006+163564200005+164834280006+166709160005+167979240006+169854120005+171184680006+172999080005+174329640006+176144040005+177474600006+179289000005+180619560006+182494440005+183764520006+185639400005+186909480006+188784360005+190114920006+191929320005+193259880006+195074280005+196404840006+198279720005+199549800006+201424680005+202694760006+204569640005+205839720006+207714600005+209045160006+210859560005+212190120006+214004520005"],
    [tt |-> "+05820+00000RMT  +09420+03600LST  +07200+00000EET  +10800+00000MSK  +07200+03600CEST +03600+00000CET  +14400+03600MSD  +10800+03600EEST ",
     at |-> "-163200819402-161870259401-160168179402-159727539401-137730819403-092802960004-089952120005-085725720006-084455640005-082822680006-081250200005-079677720006-079583400004+035492040007+037072800004+038645640007+040226400004+041799240007+043380000004+044961480007+046534680004+048107160007+049679640004+051252120007+052824600004+054397080007+055969560004+057542040007+059114520004+060687000008+062259840003+063832320008+065465280003+067037760008+068610240003+070182720008+071755200003+073327680008+074900160003+076472640008+078045120003+079617600008+081190080003+082823040008+084395520003+085968360008+087782760003+089113320008+090927720003+092258280008+094133160003+098548200008+100423080003+101753640008+103568040003+104898600008+106713000003+108043560008+109918440003+111188520008+113063400003+114333480008+116208360003+117478440008+119353320003+120683880008+122498280003+123828840008+125643240003+126973800008+128848680003+130118760008+131993640003+133263720008+135138600003+136469160008+138283560003+139614120008+141428520003+142759080008+144573480003+145904040008+147778920003+149049000008+150923880003+152193960008+154068840003+155399400008+157213800003+158544360008+160358760003+161689320008+163564200003+164834280008+166709160003+167979240008+169854120003+171184680008+172999080003+174329640008+176144040003+177474600008+179289000003+180619560008+182494440003+183764520008+185639400003+186909480008+188784360003+190114920008+191929320003+193259880008+195074280003+196404840008+198279720003+199549800008+201424680003+202694760008+204569640003+205839720008+207714600003+209045160008+210859560003+212190120008+214004520003"],
    [tt |-> "+03600+00000CET  +07200+03600CEST ",
     at |-> "-169076520002-168048720001-166475880002-164895120001-163512360002-161689680001-160427880002-158553360001-157101480002-155529360001-093243240002-085725720001-084455640002-082822680001-081250200002-079807320001-078105240002-076671720001-075089880002-073335960001-071945640002-070191720001-068920920002-067046040001-011405160002-010316880001-008199720002-007171560001-005054760002-004026600001-001849320002-000821160001+001295640002+002323800001+004380120002+005468760001+007585560002+008674200001+010791000002+011819160001+013875480002+014964120001+017080920002+018109080001+020225880002+021254040001+023310360002+024399000001+026515800002+027604440001+029660760002+030749400001+032383080002+033895080001+035467560002+037040040001+038612520002+040185000001+041757480002+043329960001+044902440002+046535400001+048107880002+049680360001+051252840002+052825320001+054397800002+055970280001+057542760002+059115240001+060687720002+062260200001+063832680002+065465640001+067038120002+068610600001+070183080002+071755560001+073328040002+074900520001+076473000002+078045480001+079617960002+081190440001+082823400002+084637800001+085968360002+087782760001+089113320002+090927720001+092258280002+094133160001+095403240002+097278120001+098548200002+100423080001+101753640002+103568040001+104898600002+106713000001+108043560002+109918440001+111188520002+113063400001+114333480002+116208360001+117478440002+119353320001+120683880002+122498280001+123828840002+125643240001+126973800002+128848680001+130118760002+131993640001+133263720002+135138600001+136469160002+138283560001+139614120002+141428520001+142759080002+144573480001+145904040002+147778920001+149049000002+150923880001+152193960002+154068840001+155399400002+157213800001+158544360002+160358760001+161689320002+163564200001+164834280002+166709160001+167979240002+169854120001+171184680002+172999080001+174329640002+176144040001+177474600002+179289000001+180619560002+182494440001+183764520002+185639400001+186909480002+188784360001+190114920002+191929320001+193259880002+195074280001+196404840002+198279720001+199549800002+201424680001+202694760002+204569640001+205839720002+207714600001+209045160002+210859560001+212190120002+214004520001"],
    [tt |-> "+12000+00000LMT  +10800+00000+03  +14400+00000+04  +18000+03600+05  +14400+03600+04  +10800-03600+03  ",
     at |-> "-159382080002-124754040003+035491680004+037072440003+038645280004+040226040003+041798880004+043379640003+044961120004+046534320003+048106800004+049679280003+051251760004+052824240003+054396720004+055969200003+057541680004+059114160003+060686640005+062259480002+063831960005+065464920002+067037400006+068610240002+068791680003+070182000004+071754480003+073326960004+074899440003+076471920004+078044400003+079616880004+081189360003+082822320004+084636720003+085967280004+087781680003+089112240004+090926640003+092257200004+094132080003+095402160004+097277040003+098547120004+100422000003+101752560004+103566960003+104897520004+106711920003+108042480004+109917360003+111187440004+113062320003+114332400004+116207280003+117477360004+119352240003+120682800004+122497200003+123827760004+125642160003+126972720005+128847960002+130118040003+214748364703"],
    [tt |-> "+11040+00000LMT  +10800+00000+03  +14400+00000+04  +18000+03600+05  +14400+03600+04  ",
     at |-> "-159382080002-124754040003+035491680004+037072440003+038645280004+040226040003+041798880004+043379640003+044961120004+046534320003+048106800004+049679280003+051251760004+052824240003+054396720004+055969200003+057541680005+059114520002+060687000005+062259480002+063831960005+065464920002+067037400003+070182000005+071754840002+073327320005+074899800002+076472280005+078044760002+079617240005+081189720002+082822680005+084637080002+085967640005+087782040002+089112600005+090927000002+092257560005+094132440002+095402520005+097277400002+098547480005+100422360002+101752920005+103567320002+104897880005+106712280002+108042840005+109917720002+111187800005+113062680002+114332760005+116207640002+117477720005+119352600002+120683160005+122497560002+123828120005+125642520002+126973080005+128847960002+130118040003+141427440002+148080600003+214748364703"],
    [tt |-> "+08160+00000SMT  +07200+00000EET  +10800+00000MSK  +07200+03600CEST +03600+00000CET  +14400+03600MSD  +10800+03600EEST +14400+07200MSD  +14400+00000MSK  ",
     at |-> "-144116016002-124753680003-088889400004-085725720005-084455640004-082822680005-081250200004-081164880003+035492040006+037072800003+038645640006+040226400003+041799240006+043380000003+044961480006+046534680003+048107160006+049679640003+051252120006+052824600003+054397080006+055969560003+057542040006+059114520003+060687000006+062259480003+064678680002+070182720007+071755200002+073327680007+074900160002+076472640007+076773960008+078044760003+079617240006+081189720003+082821960006+084637440003+085968360007+087782760002+089113320007+090927720002+092258280007+094133160002+095403240007+097278120002+098548200007+100423080002+101753640007+103568040002+104898600007+106713000002+108043560007+109918440002+111188520007+113063400002+114333480007+116208360002+117478440007+119353320002+120683880007+122498280002+123828840007+125643240002+126973800007+128848680002+130118760007+131993640002+133263720007+135138600002+136469160007+138283560002+139613760009+141427440003"],
    [tt |-> "+07200+00000EET  +03600+00000CET  +07200+03600CEST +10800+03600EEST ",
     at |-> "-085725720002-084455640003-082822680002-081250200003-079677720002-078104880001+029176200004+030757680001+032381640004+033902640001+035526600004+037039320001+038671560004+040184640001+041757120004+043329600001+044902080004+046535040001+048107520004+049680000001+051252480004+052824960001+054397440004+055969920001+057542400004+059114880001+060687360004+062259840001+063832320004+065465280001+067037040004+068609160001+070182000004+071754120001+073326960004+074899080001+076471920004+078044040001+079616880004+081189000001+082822320004+084636360001+085968360004+087782760001+089113320004+090927720001+092258280004+094133160001+095403240004+097278120001+098548200004+100423080001+101753640004+103568040001+104898600004+106713000001+108043560004+109918440001+111188520004+113063400001+114333480004+116208360001+117478440004+119353320001+120683880004+122498280001+123828840004+125643240001+126973800004+128848680001+130118760004+131993640001+133263720004+135138600001+136469160004+138283560001+139614120004+141428520001+142759080004+144573480001+145904040004+147778920001+149049000004+150923880001+152193960004+154068840001+155399400004+157213800001+158544360004+160358760001+161689320004+163564200001+164834280004+166709160001+167979240004+169854120001+171184680004+172999080001+174329640004+176144040001+177474600004+179289000001+180619560004+182494440001+183764520004+185639400001+186909480004+188784360001+190114920004+191929320001+193259880004+195074280001+196404840004+198279720001+199549800004+201424680001+202694760004+204569640001+205839720004+207714600001+209045160004+210859560001+212190120004+214004520001"],
    [tt |-> "+03600+00000CET  +07200+03600CEST ",
     at |-> "-169249680002-168048360001+032383080002+033895080001+035467560002+037040040001+038612520002+040185000001+041757480002+043329960001+044902440002+046535400001+048107880002+049680360001+051252840002+052825320001+054397800002+055970280001+057542760002+059115240001+060687720002+062260200001+063832680002+065465640001+067038120002+068610600001+070183080002+071755560001+073328040002+074900520001+076473000002+078045480001+079617960002+081190440001+082823400002+084637800001+085968360002+087782760001+089113320002+090927720001+092258280002+094133160001+095403240002+097278120001+098548200002+100423080001+101753640002+103568040001+104898600002+106713000001+108043560002+109918440001+111188520002+113063400001+114333480002+116208360001+117478440002+119353320001+120683880002+122498280001+123828840002+125643240001+126973800002+128848680001+130118760002+131993640001+133263720002+135138600001+136469160002+138283560001+139614120002+141428520001+142759080002+144573480001+145904040002+147778920001+149049000002+150923880001+152193960002+154068840001+155399400002+157213800001+158544360002+160358760001+161689320002+163564200001+164834280002+166709160001+167979240002+169854120001+171184680002+172999080001+174329640002+176144040001+177474600002+179289000001+180619560002+182494440001+183764520002+185639400001+186909480002+188784360001+190114920002+191929320001+193259880002+195074280001+196404840002+198279720001+199549800002+201424680001+202694760002+204569640001+205839720002+207714600001+209045160002+210859560001+212190120002+214004520001"],
    [tt |-> "+05940+00000TMT  +03600+00000CET  +07200+03600CEST +07200+00000EET  +10800+00000MSK  +14400+03600MSD  +10800+03600EEST ",
     at |-> "-163832274002-163200600003-161870040002-159382440001-153593874004-092794320005-089295480003-085725720002-084455640003-082822680002-081250200003-079765200005+035492040006+037072800005+038645640006+040226400005+041799240006+043380000005+044961480006+046534680005+048107160006+049679640005+051252120006+052824600005+054397080006+055969560005+057542040006+059114520005+060687000007+062259840004+063832320007+065465280004+067037760007+068610240004+070182720007+071755200004+073327680007+074900160004+076472640007+078045120004+079617600007+081190080004+082823040007+084637440004+085968000007+087782400004+089112960007+090927720004+092258280007+094133160004+101753640007+103568040004+104898600007+106713000004+108043560007+109918440004+111188520007+113063400004+114333480007+116208360004+117478440007+119353320004+120683880007+122498280004+123828840007+125643240004+126973800007+128848680004+130118760007+131993640004+133263720007+135138600004+136469160007+138283560004+139614120007+141428520004+142759080007+144573480004+145904040007+147778920004+149049000007+150923880004+152193960007+154068840004+155399400007+157213800004+158544360007+160358760004+161689320007+163564200004+164834280007+166709160004+167979240007+169854120004+171184680007+172999080004+174329640007+176144040004+177474600007+179289000004+180619560007+182494440004+183764520007+185639400004+186909480007+188784360004+190114920007+191929320004+193259880007+195074280004+196404840007+198279720004+199549800007+201424680004+202694760007+204569640004+205839720007+207714600004+209045160007+210859560004+212190120007+214004520004"],
    [tt |-> "+04740+00000LMT  +03600+00000CET  +07200+03600CEST ",
     at |-> "-176723036002-093234600003-085725720002-084455640003-084351960002+013685400003+014989680002+016813080003+018143280002+019983960003+021314160002+023189400003+024459120002+026325720003+027604080002+029470680003+030749040002+032615640003+033945840002+035708760003+037038960002+038914200003+040244400002+041946840003+043380720002+044962200003+046535400002+048107880003+049680360002+051252840003+052825320002+054397800003+055970280002+057542760003+059115240002+060687720003+062260200002+063832680003+065465640002+067038120003+068610600002+070183080003+071755560002+073328040003+074900520002+076473000003+078045480002+079617960003+081190440002+082823400003+084637800002+085968360003+087782760002+089113320003+090927720002+092258280003+094133160002+095403240003+097278120002+098548200003+100423080002+101753640003+103568040002+104898600003+106713000002+108043560003+109918440002+111188520003+113063400002+114333480003+116208360002+117478440003+119353320002+120683880003+122498280002+123828840003+125643240002+126973800003+128848680002+130118760003+131993640002+133263720003+135138600002+136469160003+138283560002+139614120003+141428520002+142759080003+144573480002+145904040003+147778920002+149049000003+150923880002+152193960003+154068840002+155399400003+157213800002+158544360003+160358760002+161689320003+163564200002+164834280003+166709160002+167979240003+169854120002+171184680003+172999080002+174329640003+176144040002+177474600003+179289000002+180619560003+182494440002+183764520003+185639400002+186909480003+188784360002+190114920003+191929320002+193259880003+195074280002+196404840003+198279720002+199549800003+201424680002+202694760003+204569640002+205839720003+207714600002+209045160003+210859560002+212190120003+214004520002"],
    [tt |-> "+11640+00000LMT  +10800+00000+03  +14400+00000+04  +18000+03600+05  +14400+03600+04  +10800+03600+03  +07200+00000+02  ",
     at |-> "-159382080002-124754040003+035491680004+037072440003+038645280004+040226040003+041798880004+043379640003+044961120004+046534320003+048106800004+049679280003+051251760004+052824240003+054396720004+055969200003+057541680004+059114160003+060686640005+062259480002+063831960005+065464920002+067037400006+068610240007+069577920002+070182360005+071754840002+073327320005+074899800002+076472280005+078044760002+079617240005+081189720002+082822680005+084637080002+085967640005+087782040002+089112600005+090927000002+092257560005+094132440002+095402520005+097277400002+098547480005+100422360002+101752920005+103567320002+104897880005+106712280002+108042840005+109917720002+111187800005+113062680002+114332760005+116207640002+117477720005+119352600002+120683160005+122497560002+123828120005+125642520002+126973080005+128847960002+130118040003+141427440002+145903320003+214748364703"],
    [tt |-> "+03600+00000CET  +07200+03600CEST ",
     at |-> "-169370640002-168048360001-166345560002-165015000001-163200600002-161870040001-156971160002-155580120001-093890520002-085725720001-084455640002-082822680001-081250200002-079677720001-078105240002-078018840001-074847960002-073327320001-071763480002-070191000001-068497560002-067046040001+032382360002+033894000001+035467560002+037040040001+038612520002+040185000001+041757480002+043329960001+044902440002+046535400001+048107880002+049680360001+051252840002+052825320001+054397800002+055970280001+057542760002+059115240001+060687720002+062260200001+063832680002+065465640001+067038120002+068610600001+070183080002+071755560001+073328040002+074900520001+076473000002+078045480001+079617960002+081190440001+082823400002+084637800001+085968360002+087782760001+089113320002+090927720001+092258280002+094133160001+095403240002+097278120001+098548200002+100423080001+101753640002+103568040001+104898600002+106713000001+108043560002+109918440001+111188520002+113063400001+114333480002+116208360001+117478440002+119353320001+120683880002+122498280001+123828840002+125643240001+126973800002+128848680001+130118760002+131993640001+133263720002+135138600001+136469160002+138283560001+139614120002+141428520001+142759080002+144573480001+145904040002+147778920001+149049000002+150923880001+152193960002+154068840001+155399400002+157213800001+158544360002+160358760001+161689320002+163564200001+164834280002+166709160001+167979240002+169854120001+171184680002+172999080001+174329640002+176144040001+177474600002+179289000001+180619560002+182494440001+183764520002+185639400001+186909480002+188784360001+190114920002+191929320001+193259880002+195074280001+196404840002+198279720001+199549800002+201424680001+202694760002+204569640001+205839720002+207714600001+209045160002+210859560001+212190120002+214004520001"],
    [tt |-> "+05040+00000WMT  +05760+00000KMT  +03600+00000CET  +07200+00000EET  +10800+00000MSK  +07200+03600CEST +14400+03600MSD  +10800+03600EEST ",
     at |-> "-167253624002-158510013603-156125160004-155356560003-092819880005-090012600006-085725720003-084455640006-082822680003-081250200006-080214480005+035492040007+037072800005+038645640007+040226400005+041799240007+043380000005+044961480007+046534680005+048107160007+049679640005+051252120007+052824600005+054397080007+055969560005+057542040007+059114520005+060687000008+062259840004+063832320008+065465280004+067037760008+068610240004+070182720008+071755200004+073327680008+074900160004+076472640008+078045120004+079617600008+081190080004+082823040008+084637440004+085968000008+087782400004+089113320006+090927720003+092258280006+094133160004+104898600008+106713000004+108043560008+109918440004+111188520008+113063400004+114333480008+116208360004+117478440008+119353320004+120683880008+122498280004+123828840008+125643240004+126973800008+128848680004+130118760008+131993640004+133263720008+135138600004+136469160008+138283560004+139614120008+141428520004+142759080008+144573480004+145904040008+147778920004+149049000008+150923880004+152193960008+154068840004+155399400008+157213800004+158544360008+160358760004+161689320008+163564200004+164834280008+166709160004+167979240008+169854120004+171184680008+172999080004+174329640008+176144040004+177474600008+179289000004+180619560008+182494440004+183764520008+185639400004+186909480008+188784360004+190114920008+191929320004+193259880008+195074280004+196404840008+198279720004+199549800008+201424680004+202694760008+204569640004+205839720008+207714600004+209045160008+210859560004+212190120008+214004520004"],
    [tt |-> "+10680+00000LMT  +10800+00000+03  +14400+00000+04  +18000+03600+05  +14400+03600MSD  +10800+00000MSK  +14400+00000MSK  ",
     at |-> "-157776106002-124754040003+035491680004+037072440003+038645280004+040226040003+041798880004+043379640003+044961120004+046534320003+048106800004+049679280003+051251760004+052824240003+054396720004+055969200003+057541680005+059114520006+060687000005+062259480006+063831960005+065464920006+067037400003+070182000005+071754840006+073327320005+074899800006+076472280005+078044760006+079617240005+081189720006+082822680005+084637080006+085967640005+087782040006+089112600005+090927000006+092257560005+094132440006+095402520005+097277400006+098547480005+100422360006+101752920005+103567320006+104897880005+106712280006+108042840005+109917720006+111187800005+113062680006+114332760005+116207640006+117477720005+119352600006+120683160005+122497560006+123828120005+125642520006+126973080005+128847960006+130118040007+141427440006+154068120003+160902000006"],
    [tt |-> "+05040+00000WMT  +03600+00000CET  +07200+03600CEST +07200+00000EET  +10800+03600EEST ",
     at |-> "-171703224002-169370640003-168048360002-166345560003-165015000002-163200600003-161870040004-160047360005-158716800004-150172560002-093173400003-085725720002-084455640003-082822680002-081250200003-079660800002-077872680003-076266000002-074848680003-073327320002-071521560003-070191000002-068497560003-067046040002-065413080003-063901080002-039709440003-038681280002-037108800003-035536320002-033419520003-032330880002-030758400003-029185920002-027129600003-026040960002-023984640003-022896000002-020839680003-019751040002-017634240003-016606080002+022887360003+024399360002+026032320003+027604800002+029177280003+030749760002+032382720003+033894720002+035467200003+037039680002+038612160003+040184640002+041757120003+043329600002+044902080003+046535040002+048107520003+049680000002+051252480003+052824960002+054397440003+055969920002+057542760003+059115240002+060687720003+062260200002+063832680003+065465640002+067038120003+068610600002+070183080003+071755560002+073328040003+074900520002+076473000003+078045480002+079617960003+081190440002+082823400003+084637800002+085968360003+087782760002+089113320003+090927720002+092258280003+094133160002+095403240003+097278120002+098548200003+100423080002+101753640003+103568040002+104898600003+106713000002+108043560003+109918440002+111188520003+113063400002+114333480003+116208360002+117478440003+119353320002+120683880003+122498280002+123828840003+125643240002+126973800003+128848680002+130118760003+131993640002+133263720003+135138600002+136469160003+138283560002+139614120003+141428520002+142759080003+144573480002+145904040003+147778920002+149049000003+150923880002+152193960003+154068840002+155399400003+157213800002+158544360003+160358760002+161689320003+163564200002+164834280003+166709160002+167979240003+169854120002+171184680003+172999080002+174329640003+176144040002+177474600003+179289000002+180619560003+182494440002+183764520003+185639400002+186909480003+188784360002+190114920003+191929320002+193259880003+195074280002+196404840003+198279720002+199549800003+201424680002+202694760003+204569640002+205839720003+207714600002+209045160003+210859560002+212190120003+214004520002"],
    [tt |-> "-37800+00000HST  -34200+03600HDT  -34200+03600HWT  -34200+03600HPT  -36000+00000HST  ",
     at |-> "-115728300002-115543620001-088019820003-076939560004-076537620001-071215020005"],
    [tt |-> "+11400+00000LMT  +10800+00000EAT  +14400+03600EAST ",
     at |-> "-184629300402-049992480003-049206240002"],
    [tt |-> "+17400+00000LMT  +18000+00000+05  +21600+00000+06  ",
     at |-> "-198816778002+082043640003+214748364703"],
    [tt |-> "+25200+00000+07  ",
     at |-> "+214748364701"],
    [tt |-> "+23400+00000+0630",
     at |-> "+214748364701"],
    [tt |-> "+10380+00000LMT  +10800+00000EAT  ",
     at |-> "-184629198402"],
    [tt |-> "+00000+00000-00  +18000+00000+05  ",
     at |-> "-063115200002+214748364702"],
    [tt |-> "+13320+00000LMT  +14400+00000+04  ",
     at |-> "-198816370802+214748364702"],
    [tt |-> "+17640+00000MMT  +18000+00000+05  ",
     at |-> "-031563684002+214748364702"],
    [tt |-> "+13800+00000LMT  +14400+00000+04  +18000+03600+05  ",
     at |-> "-198816420002+040304160003+041703480002+122497200003+123827400002+214748364702"],
    [tt |-> "+10860+00000LMT  +10800+00000EAT  ",
     at |-> "-184629245602"],
    [tt |-> "+13320+00000LMT  +14400+00000+04  ",
     at |-> "-184888691202+214748364702"],
    [tt |-> "+39600+00000+11  +36000+00000+10  +32400+00000+09  -43200+00000-12  +43200+00000+12  ",
     at |-> "-104141880002-090740880003-081746280001-000798840004+074593440005+214748364705"],
    [tt |-> "+44100+00000+1215+45900+00000+1245+49500+03600+1345",
     at |-> "-075742650002+015263280003+016230960002+018347760003+019496880002+021553200003+022641840002+024698160003+025786800002+027843120003+028931760002+030988080003+032076720002+034133040003+035221680002+037278000003+038427120002+040483440003+041572080002+043628400003+044717040002+046773360003+047862000002+049918320003+051006960002+053063280003+054151920002+056208240003+057357360002+059413680003+060502320002+062377200003+063768240002+065522160003+066913200002+068667120003+070058160002+071812080003+073263600002+074957040003+076408560002+078102000003+079553520002+081246960003+082698480002+084452400003+085843440002+087597360003+088988400002+090742320003+092193840002+093887280003+095338800002+097032240003+098483760002+100237680003+101628720002+103382640003+104773680002+106527600003+107979120002+109672560003+111124080002+112817520003+114269040002+115962480003+117414000002+119107440003+120740400002+122252400003+123885360002+125397360003+127030320002+128542320003+130175280002+131687280003+133320240002+134892720003+136525680002+138037680003+139670640002+141182640003+142815600002+144327600003+145960560002+147472560003+149105520002+150617520003+152250480002+153822960003+155455920002+156967920003+158600880002+160112880003+161745840002+163257840003+164890800002+166402800003+168035760002+169547760003+171241200002+172753200003+174386160002+175898160003+177531120002+179043120003+180676080002+182188080003+183821040002+185333040003+186966000002+188538480003+190171440002+191683440003+193316400002+194828400003+196461360002+197973360003+199606320002+201118320003+202751280002+204263280003+205896240002+207468720003+209101680002+210613680003+212246640002+213758640003+214748364703"],
    [tt |-> "-41220+00000LMT  -41400+00000-1130-39600+00000-11  -36000+03600-10  +50400+03600+14  +46800+00000+13  ",
     at |-> "-186187878402-063111060003+128549880004+130175280003+131687280004+132523920005+133320240006+134892720005+136525680006+138037680005+139670640006+141182640005+142815600006+144327600005+145960560006+147472560005+149105520006+150617520005+152250480006+153822960005+155455920006+156967920005+158600880006+160112880005+161745840006+214748364706"],
    [tt |-> "+36000+00000+10  +32400+00000+09  +39600+00000+11  ",
     at |-> "-086801040002-076890600001+141969600003+214748364703"],
    [tt |-> "+36000+00000+10  +32400+00000+09  ",
     at |-> "-174367440002-160681320001-090740880002-077063400001+214748364701"],
    [tt |-> "+40380+00000LMT  +39600+00000+11  +43200+03600+12  ",
     at |-> "-182938759602+012540960003+013387680002+043325640003+044897760002+046470600003+048042720002+049676040003+051187680002+052821000003+054393120002+055965960003+057538080002+059110920003+060683040002+062255880003+063828000002+065400840003+066972960002+068606280003+069634080002+071993160003+072779040002+214748364702"],
    [tt |-> "+00000+00000-00  -43200+00000-12  -39600+00000-11  +46800+00000+13  ",
     at |-> "-102047040002+030762720003+078887160004+214748364704"],
    [tt |-> "-39600+00000-11  +46800+00000+13  ",
     at |-> "+132524280002+214748364702"],
    [tt |-> "+42960+00000LMT  +43200+00000+12  +46800+03600+13  ",
     at |-> "-170998534402+090984240003+092012400002+094189680003+095157360002+125941680003+126969840002+128784240003+129933360002+131929200003+132715440002+135074160003+135860400002+138279600003+139005000002+141485040003+142150320002+144630000003+145295280002+147835440003+148440240002+150980400003+151585200002+154125360003+154730160002+157330800003+157875120002+160838640003+161080560002+214748364702"],
    [tt |-> "+43200+00000+12  ",
     at |-> "+214748364701"],
    [tt |-> "-21480+00000LMT  -18000+00000-05  -21600+00000-06  -18000+03600-05  ",
     at |-> "-123074649602+050493960003+072293040004+072888840003+214748364703"],
    [tt |-> "-32400+00000LMT  -32400+00000-09  ",
     at |-> "-180667801202+214748364702"],
    [tt |-> "+38400+00000LMT  +39600+00000+11  ",
     at |-> "-180674878802+214748364702"],
    [tt |-> "+36000+00000GST  +32400+00000+09  +39600+03600GDT  +36000+00000ChST ",
     at |-> "-088554960002-080225640001-033189120003-028161000001-007372800003-002941554001-001670400003-001065960001+000990720003+002139480001+004135680003+005284440001+012481920003+013086360001+020188800003+020948766001+023065920003+024154200001+097749360004"],
    [tt |-> "-38400+00000-1040-36000+00000-10  +50400+00000+14  ",
     at |-> "+030762240002+078886800003+214748364703"],
    [tt |-> "+39600+00000+11  +32400+00000+09  +36000+00000+10  +43200+00000+12  ",
     at |-> "-174367800002-160681320001-104141880003-090740880002-077063400001-000798840004+091510560001+214748364701"],
    [tt |-> "+39600+00000+11  +32400+00000+09  +36000+00000+10  +43200+00000+12  ",
     at |-> "-174367800002-160681320001-104141880003-090740880002-081806760001-000798840004+214748364704"],
    [tt |-> "-33480+00000LMT  -34200+00000-0930",
     at |-> "-180667692002+214748364702"],
    [tt |-> "-39600+00000-11  -36000+03600-10  -39600+00000SST  ",
     at |-> "-042850440002-042064560003"],
    [tt |-> "+40080+00000LMT  +41400+00000+1130+32400+00000+09  +43200+00000+12  ",
     at |-> "-154513126002-086291820003-076735080002+028741860004+214748364704"],
    [tt |-> "-40800+00000LMT  -40800+00000-1120-39600+00000-11  ",
     at |-> "-054306962002-017362320003+214748364703"],
    [tt |-> "+40320+00000+1112+41400+00000+1130+45000+03600+1230+39600+00000+11  +43200+03600+12  ",
     at |-> "-059965632002+015202980003+016291620002+144388260004+157028760005+158601240004+160173720005+161746200004+163318680005+164891160004+166463640005+168036120004+169608600005+171241560004+172814040005+174386520004+175959000005+177531480004+179103960005+180676440004+182248920005+183821400004+185393880005+186966360004+188599320005+190171800004+191744280005+193316760004+194889240005+196461720004+198034200005+199606680004+201179160005+202751640004+204324120005+205896600004+207529560005+209102040004+210674520005+212247000004+213819480005+214748364705"],
    [tt |-> "+39960+00000LMT  +39600+00000+11  +43200+03600+12  ",
     at |-> "-182938714802+025000200003+025734240002+028145160003+028887840002+084936600003+085722840002+214748364702"],
    [tt |-> "-40980+00000LMT  -39600+00000SST  ",
     at |-> "-186187903202"],
    [tt |-> "+32400+00000+09  ",
     at |-> "+214748364701"],
    [tt |-> "-30600+00000-0830-28800+00000-08  ",
     at |-> "+089366580002+214748364702"],
    [tt |-> "+39600+00000+11  +32400+00000+09  +36000+00000+10  ",
     at |-> "-174367800002-160681320001-104141880003-090740880002-077063400001+214748364701"],
    [tt |-> "+36000+00000+10  ",
     at |-> "+214748364701"],
    [tt |-> "-38340+00000LMT  -37800+00000-1030-34200+03600-0930-36000+00000-10  -34200+01800-0930",
     at |-> "-054307205602+027971460003+028938780004+030995280005+032083740004+034140240005+035228700004+037285200005+038434140004+040490640005+041579100004+043635600005+044724060004+046780560005+047869020004+049925520005+051013980004+053070480005+054158940004+056215440005+057364380004+059420880005+060509340004+062565840005+063654300004+065710800005+066799260004+214748364704"],
    [tt |-> "+32400+00000+09  +36000+00000GST  +39600+03600GDT  +36000+00000ChST ",
     at |-> "-080415720002-033189120003-028161000002-007372800003-002941554002-001670400003-001065960002+000990720003+002139480002+004135680003+005284440002+012481920003+013086360002+020188800003+020948766002+023065920003+024154200002+097749360004"],
    [tt |-> "-35880+00000LMT  -36000+00000-10  ",
     at |-> "-180667450402+214748364702"],
    [tt |-> "+44340+00000LMT  +44400+00000+1220+46800+00000+13  +50400+03600+14  ",
     at |-> "-076718995202-028404120003+093921480004+095338440003+097334280004+098059680003+100479240004+101204640003+147835080004+148439880003+214748364703"] >>

\* The number written in decimal digits
RECURSIVE Digits(_)
Digits(s) ==
    IF s = "" THEN 0
    ELSE 10 * Digits(SubSeq(s, 1, Len(s) - 1)) + DigitVal(SubSeq(s, Len(s), Len(s)))

\* The number written with a sign before its digits
Signed(s) ==
    IF SubSeq(s, 1, 1) = "-" THEN 0 - Digits(SubSeq(s, 2, Len(s)))
    ELSE Digits(SubSeq(s, 2, Len(s)))

\* A name without the spaces that fill its field
RECURSIVE Unpad(_)
Unpad(s) ==
    IF s # "" /\ SubSeq(s, Len(s), Len(s)) = " " THEN Unpad(SubSeq(s, 1, Len(s) - 1))
    ELSE s

\* What pytz builds from the zone files: tt[1] is in force from the start of
\* the clock readings on, and then tt[k] from each <<time, k>> of `at` on;
\* n is the number of transitions.
TzTables ==
    [f \in 1..Len(TzFiles) |->
        [tt |-> [k \in 1..(Len(TzFiles[f].tt) \div 17) |->
                    <<Signed(SubSeq(TzFiles[f].tt, 17 * k - 16, 17 * k - 11)),
                      Signed(SubSeq(TzFiles[f].tt, 17 * k - 10, 17 * k - 5)),
                      Unpad(SubSeq(TzFiles[f].tt, 17 * k - 4, 17 * k))>>],
         at |-> [k \in 1..(Len(TzFiles[f].at) \div 13) |->
                    <<Signed(SubSeq(TzFiles[f].at, 13 * k - 12, 13 * k - 2)),
                      Digits(SubSeq(TzFiles[f].at, 13 * k - 1, 13 * k))>>],
         n  |-> Len(TzFiles[f].at) \div 13]]

\* The names as the case-insensitive lookup of pytz.timezone compares them
ZoneNames == [i \in 1..Len(AllTimezones) |-> Lower(Chars(AllTimezones[i][1]))]

\* pytz._all_timezones_lower_to_standard, to the row of the name's data
ZoneRows ==
    [name \in {ZoneNames[i] : i \in 1..Len(AllTimezones)} |->
        AllTimezones[CHOOSE i \in 1..Len(AllTimezones) : ZoneNames[i] = name][2]]

\* pytz.timezone(zone) does not raise UnknownTimeZoneError. Every name is
\* ASCII, and no other character up to U+00FF lowers to an ASCII one.
IsKnownZone(zone) == Lower(Unmunge(zone)) \in DOMAIN ZoneRows

\* pytz.timezone(zone), for a known zone
ZoneOf(zone) == TzTables[ZoneRows[Lower(Unmunge(zone))]]

\* The clock readings, and a + b kept within them
MinTime == 0 - 2147483647 - 1
MaxTime == 2147483647
Plus(a, b) ==
    IF b > 0 /\ a > MaxTime - b THEN MaxTime
    ELSE IF b < 0 /\ a < MinTime - b THEN MinTime
    ELSE a + b

\* bisect_right(times, t): how many transitions of `at` are at or before t,
\* lo of them known to be, those after hi known not to be
RECURSIVE Bisect(_, _, _, _)
Bisect(at, t, lo, hi) ==
    IF lo = hi THEN lo
    ELSE LET mid == (lo + hi + 1) \div 2
         IN  IF at[mid][1] <= t THEN Bisect(at, t, mid, hi)
             ELSE Bisect(at, t, lo, mid - 1)

\* DstTzInfo.fromutc: the (utcoffset, dst, tzname) of the zone at the instant t
InfoAt(z, t) ==
    LET n == Bisect(z.at, t, 0, z.n)
    IN  IF n = 0 THEN z.tt[1] ELSE z.tt[z.at[n][2]]

\* tz.utcoffset at the instant t, in seconds
OffsetAt(zone, t) == InfoAt(ZoneOf(zone), t)[1]

\* strftime("%H") of the instant t in the zone
HourAt(zone, t) ==
    ((t \div 3600) + (((t % 3600) + OffsetAt(zone, t)) \div 3600)) % 24

\* datetime.now(tz).strftime("%Y-%m-%d %H:%M:%S %Z"): the local hour of day
\* and the zone abbreviation
FormatTime(t, zone) ==
    [hour |-> HourAt(zone, t), abbr |-> InfoAt(ZoneOf(zone), t)[3]]

\* tz.localize(naive), is_dst=False: the instant of a wall-clock time (given
\* as the seconds it would be in UTC). The offsets in force a day before and
\* a day after are tried; of those that give back the wall-clock time, one
\* of standard time if there is one, and the latest instant; a wall-clock
\* time that never happened is taken six hours earlier and moved back.
RECURSIVE Localize(_, _)
Localize(zone, wall) ==
    LET z == ZoneOf(zone)
        tried == {InfoAt(z, Plus(wall, 0 - 86400))[1], InfoAt(z, Plus(wall, 86400))[1]}
        possible == {o \in tried : InfoAt(z, Plus(wall, 0 - o))[1] = o}
        standard == {o \in possible : InfoAt(z, Plus(wall, 0 - o))[2] = 0}
        left == IF standard # {} THEN standard ELSE possible
    IN  IF possible = {} THEN Localize(zone, wall - 21600) + 21600
        ELSE wall - (CHOOSE o \in left : \A x \in left : o <= x)

-----------------------------------------------------------------------------
(* verify_slack_request, main.py:66-95 *)

ReplayWindow == 300

\* hmac.new(key, msg, sha256).hexdigest(): symbolic, the digest of (key, msg)
HmacSha256(key, ts, body) == [key |-> key, ts |-> ts, body |-> body]

\* "v0:" + timestamp + ":" + body signed with the secret, prefixed "v0="
MySignature(sec, ts, body) ==
    [prefix |-> "v0=", digest |-> HmacSha256(sec, ts, body), ascii |-> TRUE]

\* hmac.compare_digest(a, b) on str: TypeError unless both are ASCII
CompareDigest(a, b) ==
    IF ~(a.ascii /\ b.ascii) THEN "raise"
    ELSE IF a = b THEN "true" ELSE "false"

\* verify_slack_request without the check of main.py:84 that a secret is
\* configured.
verify_slack_request_NoSecretCheck(r, sec, t) ==
    IF ~r.ts.present \/ r.ts.val = <<>> \/ ~r.sig.present \/ r.sig.empty
    THEN "false"
    ELSE IF IntRaises(r.ts.val) THEN "false"
    ELSE IF FloatOverflows(IntOf(r.ts.val)) THEN "raise"
    ELSE IF OutsideWindow(t, IntOf(r.ts.val), ReplayWindow) THEN "false"
    ELSE CompareDigest(MySignature(sec, r.ts.val, r.body), r.sig.val)

\* The outcome of verify_slack_request(req): "true", "false", or "raise" when
\* an exception leaves it (main.py:81 catches ValueError and TypeError only).
verify_slack_request(r, sec, t) ==
    IF ~r.ts.present \/ r.ts.val = <<>> \/ ~r.sig.present \/ r.sig.empty
    THEN "false"
    ELSE IF IntRaises(r.ts.val) THEN "false"
    ELSE IF FloatOverflows(IntOf(r.ts.val)) THEN "raise"
    ELSE IF OutsideWindow(t, IntOf(r.ts.val), ReplayWindow) THEN "false"
    ELSE IF sec = "" THEN "false"
    ELSE CompareDigest(MySignature(sec, r.ts.val, r.body), r.sig.val)

-----------------------------------------------------------------------------
(* Requests: what the environment can send to POST /slack/events *)

Slots == {1, 2}

\* The secret Slack signs with, and what the process may hold (main.py:18:
\* the environment variable, "" when unset).
RealKey == "s3cret"
Secrets == {RealKey, ""}

\* A winter and a summer instant: 1970-01-02 and 2024-07-03
Clock == {100000, 1720000000}

DefaultTimezone == <<"A","m","e","r","i","c","a","/","C","h","i","c","a","g","o">>

Fragments == {
        <<>>,
        <<"h","i">>,
        <<"H","e","l","l","o">>,
        <<"D","a","y">>,
        <<"D","A","T","E">>,
        <<"t","i","m","e","z","o","n","e">>,
        <<"t","i","m","e","z","o","n","e"," ","U","T","C">>,
        <<"t","i","m","e","z","o","n","e"," ","E","u","r","o","p","e","/","L","o","n","d","o","n">>,
        <<"t","i","m","e","z","o","n","e"," ","m","a","r","s">>,
        <<"n","e","x","t"," ","e","v","e","n","t">>,
        <<"t","o","d","a","y">>,
        <<"c","a","l","e","n","d","a","r">>,
        <<"t","h","i","s"," ","w","e","e","k">>,
        <<" ","e","v","e","n","t">> }

RECURSIVE TextsOf(_)
TextsOf(n) ==
    IF n = 0 THEN {<<>>}
    ELSE {a \o f : a \in TextsOf(n - 1), f \in Fragments}

Texts == TextsOf(MaxFrags)

HiTimezoneUTC == <<"h","i"," ","t","i","m","e","z","o","n","e"," ","U","T","C">>

\* The JSON body: the top-level "type", whether a "challenge" key is present,
\* and the fields of "event" (etype "none": no "event" key).
Mention(text, channel) ==
    [ptype |-> "event_callback", challenge |-> FALSE, etype |-> "app_mention",
     subtype |-> "none", hasChannel |-> TRUE, channel |-> channel, text |-> text]

EventVariants == {
    Mention(HiTimezoneUTC, "C2"),
    [Mention(HiTimezoneUTC, "C2") EXCEPT !.hasChannel = FALSE, !.channel = "none"],
    [Mention(HiTimezoneUTC, "C2") EXCEPT !.etype = "message", !.subtype = "bot_message"],
    [Mention(HiTimezoneUTC, "C2") EXCEPT !.subtype = "bot_message"],
    [Mention(HiTimezoneUTC, "C2") EXCEPT !.etype = "message"],
    [Mention(<<>>, "none") EXCEPT !.etype = "none", !.hasChannel = FALSE] }

ProbeBodies ==
    {[e EXCEPT !.ptype = t, !.challenge = c] :
        e \in EventVariants, t \in {"url_verification", "event_callback"}, c \in BOOLEAN}

NoBody == [Mention(<<>>, "none") EXCEPT !.etype = "none", !.hasChannel = FALSE]

\* The body as changed in transit after it was signed.
Tampered(body) == [body EXCEPT !.text = Append(@, "!")]

\* X-Slack-Request-Timestamp
TsHeaders(t) ==
    {[present |-> FALSE, val |-> <<>>],
     [present |-> TRUE, val |-> <<>>],
     [present |-> TRUE, val |-> <<"a","b","c">>],
     [present |-> TRUE, val |-> <<"+">> \o StrOf(t)],
     [present |-> TRUE, val |-> <<"\r">> \o StrOf(t) \o <<"\f">>],
     [present |-> TRUE, val |-> <<Head(StrOf(t)), "_">> \o Tail(StrOf(t))],
     [present |-> TRUE, val |-> <<Head(StrOf(t)), "_", "_">> \o Tail(StrOf(t))],
     [present |-> TRUE, val |-> <<"0", "0">> \o StrOf(t)],
     [present |-> TRUE, val |-> StrOf(t) \o StrOf(t)],
     [present |-> TRUE, val |-> <<"-">> \o FloatLimit]}
    \cup {[present |-> TRUE, val |-> StrOf(t + d)] :
            d \in {0 - ReplayWindow - 1, 0 - ReplayWindow, 0, ReplayWindow, ReplayWindow + 1}}

NoSignature ==
    [present |-> FALSE, empty |-> FALSE,
     val |-> [prefix |-> "", digest |-> HmacSha256("", <<>>, NoBody), ascii |-> TRUE]]

\* "v0=" + the digest Slack computes for (ts, body)
SlackSignature(ts, body) ==
    [present |-> TRUE, empty |-> FALSE, val |-> MySignature(RealKey, ts, body)]

\* X-Slack-Signature
SigHeaders(t, ts, body) ==
    {NoSignature,
     [NoSignature EXCEPT !.present = TRUE, !.empty = TRUE],
     SlackSignature(ts, body),
     SlackSignature(ts, Tampered(body)),
     SlackSignature(StrOf(t), body),
     [SlackSignature(ts, body) EXCEPT !.val.digest.key = "wrong"],
     [SlackSignature(ts, body) EXCEPT !.val.digest.key = ""],
     [SlackSignature(ts, body) EXCEPT !.val.prefix = ""],
     [SlackSignature(ts, body) EXCEPT !.val.ascii = FALSE]}

\* Requests that probe the handshake branch and the signature gate.
ProbeRequests(t) ==
    UNION {{[body |-> b, ts |-> h, sig |-> g] : g \in SigHeaders(t, h.val, b)} :
              b \in ProbeBodies, h \in TsHeaders(t)}

\* Mentions as Slack sends them: signed, fresh, with a channel.
SignedMention(t, text, channel) ==
    [body |-> Mention(text, channel),
     ts |-> [present |-> TRUE, val |-> StrOf(t)],
     sig |-> SlackSignature(StrOf(t), Mention(text, channel))]

TextRequests(t) == {SignedMention(t, x, "C1") : x \in Texts}

NoRequest == [body |-> NoBody, ts |-> [present |-> FALSE, val |-> <<>>], sig |-> NoSignature]

NoResponse == [status |-> 0, body |-> "none"]

\* What the calendar feed answers: an error, or VEVENTs in feed order. The
\* DTSTART of a VEVENT is a datetime with a zone ("aware": start is the
\* instant), a datetime without one ("naive": start is the wall-clock time,
\* as the seconds it would be in UTC), a date ("date"), or missing ("absent").
Day == 86400
NoFeed == [error |-> FALSE, events |-> <<>>]
CalendarFeeds(t) ==
    {[error |-> TRUE, events |-> <<>>],
     [error |-> FALSE, events |-> <<>>],
     [error |-> FALSE,
      events |-> <<[kind |-> "aware", start |-> t + 20 * Day, summary |-> "retreat"],
                   [kind |-> "aware", start |-> t + 3 * Day, summary |-> "review"],
                   [kind |-> "aware", start |-> t - Day, summary |-> "past"]>>],
     [error |-> FALSE,
      events |-> <<[kind |-> "aware", start |-> t + 3 * Day, summary |-> "review"],
                   [kind |-> "aware", start |-> t + 3600, summary |-> "standup"]>>],
     [error |-> FALSE,
      events |-> <<[kind |-> "date", start |-> t + Day, summary |-> "holiday"],
                   [kind |-> "naive", start |-> t + 7200, summary |-> "dentist"]>>],
     [error |-> FALSE,
      events |-> <<[kind |-> "absent", start |-> 0, summary |-> "draft"]>>]}

-----------------------------------------------------------------------------
(* get_calendar_events, main.py:28-64 *)

\* main.py:47-50: the instant of a datetime DTSTART in the zone
StartIn(zone, e) == IF e.kind = "naive" THEN Localize(zone, e.start) ELSE e.start

\* The hour of day the start is rendered with: a localized naive start keeps
\* its wall-clock fields, a start with a zone is converted to the zone.
HourIn(zone, e) ==
    IF e.kind = "naive" THEN (e.start \div 3600) % 24 ELSE HourAt(zone, e.start)

\* main.py:60: list.sort by start, which keeps the order of equal starts
RECURSIVE SortByStart(_)
SortByStart(events) ==
    IF events = <<>> THEN <<>>
    ELSE LET e == Head(events)
             rest == SortByStart(Tail(events))
             Before(x) == x.start < e.start
             NotBefore(x) == ~(x.start < e.start)
         IN  SelectSeq(rest, Before) \o <<e>> \o SelectSeq(rest, NotBefore)

\* None (ok FALSE) when the fetch fails, when TIMEZONE is not a zone pytz
\* knows, or when a VEVENT has no DTSTART; else the datetime events with
\* now <= start <= now + days in the zone, ascending by start.
get_calendar_events(feed, zone, t, days) ==
    IF feed.error \/ ~IsKnownZone(zone) THEN [ok |-> FALSE, events |-> <<>>]
    ELSE IF \E i \in 1..Len(feed.events) : feed.events[i].kind = "absent"
         THEN [ok |-> FALSE, events |-> <<>>]
    ELSE LET IsDatetime(e) == e.kind \in {"aware", "naive"}
             InZone(e) == [start |-> StartIn(zone, e), summary |-> e.summary,
                           hour |-> HourIn(zone, e)]
             timed == SelectSeq(feed.events, IsDatetime)
             local == [i \in 1..Len(timed) |-> InZone(timed[i])]
             InWindow(e) == t <= e.start /\ e.start <= Plus(t, days * Day)
         IN  [ok |-> TRUE, events |-> SortByStart(SelectSeq(local, InWindow))]

-----------------------------------------------------------------------------
(* The intents of slack_events, main.py:130-207 *)

K_hi == <<"h","i">>
K_hello == <<"h","e","l","l","o">>
K_date == <<"d","a","t","e">>
K_time == <<"t","i","m","e">>
K_day == <<"d","a","y">>
K_timezone == <<"t","i","m","e","z","o","n","e">>
K_next_event == <<"n","e","x","t"," ","e","v","e","n","t">>
K_today == <<"t","o","d","a","y">>
K_event == <<"e","v","e","n","t">>
K_calendar == <<"c","a","l","e","n","d","a","r">>
K_this_week == <<"t","h","i","s"," ","w","e","e","k">>

\* main.py:138
IsGreeting(text) == Contains(text, K_hi) \/ Contains(text, K_hello)

\* The time intent without the keyword "day".
IsCurrentTime_NoDay(text) == Contains(text, K_date) \/ Contains(text, K_time)

\* main.py:141
IsCurrentTime(text) ==
    Contains(text, K_date) \/ Contains(text, K_time) \/ Contains(text, K_day)

\* main.py:149
IsSetTimezone(text) == Contains(text, K_timezone)

\* main.py:150
NewTz(text) == Strip(SplitLast(text, K_timezone))

\* main.py:159-196: the if / elif chain of the calendar commands
CalendarIntent(text) ==
    IF Contains(text, K_next_event) THEN "next"
    ELSE IF Contains(text, K_today)
            /\ (Contains(text, K_event) \/ Contains(text, K_calendar)) THEN "today"
    ELSE IF Contains(text, K_this_week)
            /\ (Contains(text, K_event) \/ Contains(text, K_calendar)) THEN "week"
    ELSE IF Contains(text, K_calendar) /\ ~Contains(text, K_next_event) THEN "default"
    ELSE "none"

\* The days= argument each calendar command passes to get_calendar_events
CalendarDays(intent) ==
    CASE intent = "next" -> 30
      [] intent = "today" -> 1
      [] OTHER -> 7

\* One chat_postMessage call: the channel and the text, by its kind and the
\* values formatted into it.
Message(channel, kind, zone, hour, events) ==
    [channel |-> channel, kind |-> kind, zone |-> zone, hour |-> hour, events |-> events]

\* main.py:161-207: the text of the calendar reply
CalendarReply(channel, intent, got) ==
    IF ~got.ok THEN Message(channel, "cal_unavailable", <<>>, 0, <<>>)
    ELSE IF got.events = <<>> THEN Message(channel, "cal_" \o intent \o "_none", <<>>, 0, <<>>)
    ELSE IF intent = "next" THEN Message(channel, "cal_next", <<>>, 0, <<got.events[1]>>)
    ELSE Message(channel, "cal_" \o intent, <<>>, 0, got.events)

-----------------------------------------------------------------------------
(* slack_events, main.py:107-213, one handler thread per slot *)

\* main.py:132 and main.py:133, once the handler has read them
Text(s) == lowerText[s]
Channel(s) == req[s].body.channel

Respond(s, status, body) ==
    /\ resp' = [resp EXCEPT ![s] = [status |-> status, body |-> body]]
    /\ pc' = [pc EXCEPT ![s] = "done"]

\* client.chat_postMessage(...): the call goes out and the thread goes on to
\* `next`, or it raises and the thread lands in the except of main.py:208.
ChatPost(s, msg, ok, next) ==
    IF ok
    THEN /\ posts' = [posts EXCEPT ![s] = Append(@, msg)]
         /\ pc' = [pc EXCEPT ![s] = next]
         /\ caught' = caught
    ELSE /\ posts' = posts
         /\ pc' = [pc EXCEPT ![s] = "ack"]
         /\ caught' = [caught EXCEPT ![s] = TRUE]

\* A request arrives and a handler thread takes it.
Receive(s, r) ==
    /\ pc[s] = "idle"
    /\ req' = [req EXCEPT ![s] = r]
    /\ tzBefore' = [tzBefore EXCEPT ![s] = TIMEZONE]
    /\ pc' = [pc EXCEPT ![s] = "recv"]
    /\ UNCHANGED <<TIMEZONE, secret, now, verified, posts, caught, resp, fetched, lowerText>>

\* Dispatch without the bot guard of main.py:126.
Dispatch_NoBotGuard(s) ==
    /\ pc[s] = "recv"
    /\ LET b == req[s].body
           v == verify_slack_request(req[s], secret, now)
       IN  IF b.challenge
           THEN /\ Respond(s, 200, "challenge")
                /\ UNCHANGED verified
           ELSE /\ verified' = [verified EXCEPT ![s] = v]
                /\ IF v = "raise" THEN Respond(s, 500, "error")
                   ELSE IF v = "false" THEN Respond(s, 403, "invalid signature")
                   ELSE IF b.etype # "app_mention" THEN Respond(s, 200, "ok")
                   ELSE IF ~b.hasChannel THEN Respond(s, 500, "error")
                   ELSE /\ pc' = [pc EXCEPT ![s] = "greeting"]
                        /\ UNCHANGED resp
    /\ lowerText' = [lowerText EXCEPT ![s] = IF pc'[s] = "greeting"
                                             THEN Lower(req[s].body.text)
                                             ELSE lowerText[s]]
    /\ UNCHANGED <<TIMEZONE, secret, now, req, posts, caught, tzBefore, fetched>>

\* main.py:109-135: the handshake branch, the signature gate, the bot guard
\* and the reading of the event.
Dispatch(s) ==
    /\ pc[s] = "recv"
    /\ LET b == req[s].body
           v == verify_slack_request(req[s], secret, now)
       IN  IF b.challenge
           THEN /\ Respond(s, 200, "challenge")
                /\ UNCHANGED verified
           ELSE /\ verified' = [verified EXCEPT ![s] = v]
                /\ IF v = "raise" THEN Respond(s, 500, "error")
                   ELSE IF v = "false" THEN Respond(s, 403, "invalid signature")
                   ELSE IF b.subtype = "bot_message" THEN Respond(s, 200, "ok")
                   ELSE IF b.etype # "app_mention" THEN Respond(s, 200, "ok")
                   ELSE IF ~b.hasChannel THEN Respond(s, 500, "error")
                   ELSE /\ pc' = [pc EXCEPT ![s] = "greeting"]
                        /\ UNCHANGED resp
    /\ lowerText' = [lowerText EXCEPT ![s] = IF pc'[s] = "greeting"
                                             THEN Lower(req[s].body.text)
                                             ELSE lowerText[s]]
    /\ UNCHANGED <<TIMEZONE, secret, now, req, posts, caught, tzBefore, fetched>>

\* main.py:138-140
Greeting(s) ==
    /\ pc[s] = "greeting"
    /\ IF IsGreeting(Text(s))
       THEN \E ok \in BOOLEAN :
                ChatPost(s, Message(Channel(s), "greeting", <<>>, 0, <<>>), ok, "time")
       ELSE /\ pc' = [pc EXCEPT ![s] = "time"]
            /\ UNCHANGED <<posts, caught>>
    /\ UNCHANGED <<TIMEZONE, secret, now, req, verified, resp, tzBefore, fetched, lowerText>>

\* main.py:141-148
CurrentTime(s) ==
    /\ pc[s] = "time"
    /\ IF IsCurrentTime(Text(s))
       THEN \E ok \in BOOLEAN :
                IF IsKnownZone(TIMEZONE)
                THEN ChatPost(s, Message(Channel(s), "time", <<FormatTime(now, TIMEZONE).abbr>>,
                                         FormatTime(now, TIMEZONE).hour, <<>>), ok, "tz")
                ELSE ChatPost(s, Message(Channel(s), "time_error", TIMEZONE, 0, <<>>), ok, "tz")
       ELSE /\ pc' = [pc EXCEPT ![s] = "tz"]
            /\ UNCHANGED <<posts, caught>>
    /\ UNCHANGED <<TIMEZONE, secret, now, req, verified, resp, tzBefore, fetched, lowerText>>

\* SetTimezone assigning TIMEZONE before pytz has parsed the name.
SetTimezone_Unchecked(s) ==
    /\ pc[s] = "tz"
    /\ IF IsSetTimezone(Text(s))
       THEN /\ TIMEZONE' = NewTz(Text(s))
            /\ IF IsKnownZone(NewTz(Text(s)))
               THEN /\ pc' = [pc EXCEPT ![s] = "tzpost"]
                    /\ UNCHANGED <<posts, caught>>
               ELSE \E ok \in BOOLEAN :
                        ChatPost(s, Message(Channel(s), "tz_error", NewTz(Text(s)), 0, <<>>),
                                 ok, "cal")
       ELSE /\ pc' = [pc EXCEPT ![s] = "cal"]
            /\ UNCHANGED <<TIMEZONE, posts, caught>>
    /\ UNCHANGED <<secret, now, req, verified, resp, tzBefore, fetched, lowerText>>

\* main.py:149-153 and 155-156: parse the zone, assign TIMEZONE, or reply
\* with the validation error
SetTimezone(s) ==
    /\ pc[s] = "tz"
    /\ IF IsSetTimezone(Text(s))
       THEN IF IsKnownZone(NewTz(Text(s)))
            THEN /\ TIMEZONE' = NewTz(Text(s))
                 /\ pc' = [pc EXCEPT ![s] = "tzpost"]
                 /\ UNCHANGED <<posts, caught>>
            ELSE /\ \E ok \in BOOLEAN :
                        ChatPost(s, Message(Channel(s), "tz_error", NewTz(Text(s)), 0, <<>>),
                                 ok, "cal")
                 /\ UNCHANGED TIMEZONE
       ELSE /\ pc' = [pc EXCEPT ![s] = "cal"]
            /\ UNCHANGED <<TIMEZONE, posts, caught>>
    /\ UNCHANGED <<secret, now, req, verified, resp, tzBefore, fetched, lowerText>>

\* main.py:154: the confirmation formats the global TIMEZONE as it is now
ConfirmTimezone(s) ==
    /\ pc[s] = "tzpost"
    /\ \E ok \in BOOLEAN :
           ChatPost(s, Message(Channel(s), "tz_updated", TIMEZONE, 0, <<>>), ok, "cal")
    /\ UNCHANGED <<TIMEZONE, secret, now, req, verified, resp, tzBefore, fetched, lowerText>>

\* main.py:159-196 and main.py:31-34: the first calendar command that
\* matches calls get_calendar_events, which waits for the feed to answer.
FetchCalendar(s) ==
    /\ pc[s] = "cal"
    /\ IF CalendarIntent(Text(s)) # "none"
       THEN \E feed \in CalendarFeeds(now) :
                /\ fetched' = [fetched EXCEPT ![s] = feed]
                /\ pc' = [pc EXCEPT ![s] = "calread"]
       ELSE /\ pc' = [pc EXCEPT ![s] = "ack"]
            /\ UNCHANGED fetched
    /\ UNCHANGED <<TIMEZONE, secret, now, req, verified, posts, caught, resp, tzBefore, lowerText>>

\* main.py:35-64 and main.py:161-207: with the answer in hand
\* get_calendar_events reads TIMEZONE, keeps the events of the window, and
\* the reply made of them is posted.
CalendarCommand(s) ==
    /\ pc[s] = "calread"
    /\ LET intent == CalendarIntent(Text(s))
       IN  \E ok \in BOOLEAN :
               ChatPost(s, CalendarReply(Channel(s), intent,
                            get_calendar_events(fetched[s], TIMEZONE, now,
                                                CalendarDays(intent))),
                        ok, "ack")
    /\ fetched' = [fetched EXCEPT ![s] = NoFeed]
    /\ UNCHANGED <<TIMEZONE, secret, now, req, verified, resp, tzBefore, lowerText>>

\* main.py:213
Acknowledge(s) ==
    /\ pc[s] = "ack"
    /\ Respond(s, 200, "ok")
    /\ UNCHANGED <<TIMEZONE, secret, now, req, verified, posts, caught, tzBefore, fetched, lowerText>>

\* The response is sent and the thread is free for the next request.
Finish(s) ==
    /\ pc[s] = "done"
    /\ pc' = [pc EXCEPT ![s] = "idle"]
    /\ req' = [req EXCEPT ![s] = NoRequest]
    /\ verified' = [verified EXCEPT ![s] = "not_run"]
    /\ posts' = [posts EXCEPT ![s] = <<>>]
    /\ caught' = [caught EXCEPT ![s] = FALSE]
    /\ resp' = [resp EXCEPT ![s] = NoResponse]
    /\ tzBefore' = [tzBefore EXCEPT ![s] = TIMEZONE]
    /\ lowerText' = [lowerText EXCEPT ![s] = <<>>]
    /\ UNCHANGED <<TIMEZONE, secret, now, fetched>>

Handle(s) ==
    \/ Dispatch(s)
    \/ Greeting(s)
    \/ CurrentTime(s)
    \/ SetTimezone(s)
    \/ ConfirmTimezone(s)
    \/ FetchCalendar(s)
    \/ CalendarCommand(s)
    \/ Acknowledge(s)
    \/ Finish(s)

InitSlack ==
    /\ TIMEZONE = DefaultTimezone
    /\ secret \in Secrets
    /\ now \in Clock
    /\ pc = [s \in Slots |-> "idle"]
    /\ req = [s \in Slots |-> NoRequest]
    /\ verified = [s \in Slots |-> "not_run"]
    /\ posts = [s \in Slots |-> <<>>]
    /\ caught = [s \in Slots |-> FALSE]
    /\ resp = [s \in Slots |-> NoResponse]
    /\ tzBefore = [s \in Slots |-> DefaultTimezone]
    /\ fetched = [s \in Slots |-> NoFeed]
    /\ lowerText = [s \in Slots |-> <<>>]

InitNewsIdle ==
    /\ feeds = <<>>
    /\ feedIdx = 0
    /\ all_news = <<>>
    /\ seen_titles = {}
    /\ newsDone = FALSE

\* One handler thread; requests of every shape, one after the other.
Init == InitSlack /\ InitNewsIdle

Next ==
    /\ \/ /\ pc[1] = "idle"
          /\ \E r \in ProbeRequests(now) \cup TextRequests(now) : Receive(1, r)
       \/ Handle(1)
    /\ UNCHANGED newsVars

Spec == Init /\ [][Next]_vars

\* Handler threads serving requests concurrently: every interleaving of
\* their steps.
ConcTexts == {
    <<"t","i","m","e","z","o","n","e"," ","E","t","c","/","G","M","T","_","P","l","u","s","_","5">>,
    <<"t","i","m","e","z","o","n","e"," ","A","s","i","a","/","T","o","k","y","o">>,
    <<"h","i"," ","t","i","m","e","z","o","n","e"," ","m","a","r","s">>,
    <<"c","a","l","e","n","d","a","r"," ","d","a","y">> }

ConcRequests(t) ==
    {SignedMention(t, x, "C1") : x \in ConcTexts}
    \cup {[SignedMention(t, x, "C1") EXCEPT !.sig = NoSignature] : x \in ConcTexts}

NextConc ==
    /\ \E s \in Slots :
          \/ /\ pc[s] = "idle"
             /\ \E r \in ConcRequests(now) : Receive(s, r)
          \/ Handle(s)
    /\ UNCHANGED newsVars

SpecConc == Init /\ [][NextConc]_vars

-----------------------------------------------------------------------------
(* get_raw_news_headlines, daily_briefing.py:81-114 *)

\* daily_briefing.py:86-91: the number of feeds
NumFeeds == 4
\* daily_briefing.py:104: items taken from each feed
TopItems == 5

Item(title, link) == [title |-> title, link |-> link, broken |-> FALSE]

\* An <item> without a <title> or <link>: item.find(...).text raises.
BrokenItem == [title |-> "", link |-> "", broken |-> TRUE]

\* What a feed can answer: a status other than 200, an exception of the
\* request or of the XML parse, or a channel of items.
FeedAnswers == {
    [outcome |-> "status", items |-> <<Item("a", "a@s")>>],
    [outcome |-> "raise", items |-> <<>>],
    [outcome |-> "ok", items |-> <<>>],
    [outcome |-> "ok", items |-> <<Item("a", "a@1"), Item("b", "b@1")>>],
    [outcome |-> "ok", items |-> <<Item("b", "b@2"), Item("a", "a@2"),
                                   Item("c", "c@2"), Item("g", "g@2")>>],
    [outcome |-> "ok", items |-> <<Item("a", "a@3"), Item("a", "a@4"), Item("d", "d@3"),
                                   Item("e", "e@3"), Item("f", "f@3"), Item("g", "g@3"),
                                   Item("h", "h@3")>>],
    [outcome |-> "ok", items |-> <<Item("c", "c@5"), BrokenItem, Item("d", "d@5")>>] }

\* root.findall("./channel/item")[:5]
Top(items) == SubSeq(items, 1, IF Len(items) < TopItems THEN Len(items) ELSE TopItems)

\* AddItems without seen_titles.add(title).
RECURSIVE AddItems_SeenNotUpdated(_, _, _, _)
AddItems_SeenNotUpdated(items, i, news, seen) ==
    IF i > Len(items) \/ items[i].broken THEN [news |-> news, seen |-> seen]
    ELSE IF items[i].title \notin seen
         THEN AddItems_SeenNotUpdated(items, i + 1,
                       Append(news, [title |-> items[i].title, link |-> items[i].link]),
                       seen)
         ELSE AddItems_SeenNotUpdated(items, i + 1, news, seen)

\* daily_briefing.py:104-110: the inner loop over the items of one feed, from
\* item i on; a broken item raises and ends the feed (daily_briefing.py:111).
RECURSIVE AddItems(_, _, _, _)
AddItems(items, i, news, seen) ==
    IF i > Len(items) \/ items[i].broken THEN [news |-> news, seen |-> seen]
    ELSE IF items[i].title \notin seen
         THEN AddItems(items, i + 1,
                       Append(news, [title |-> items[i].title, link |-> items[i].link]),
                       seen \cup {items[i].title})
         ELSE AddItems(items, i + 1, news, seen)

\* daily_briefing.py:96-112: one iteration of the loop over the feeds
FetchFeed ==
    /\ ~newsDone
    /\ feedIdx < NumFeeds
    /\ LET f == feeds[feedIdx + 1]
           r == AddItems(Top(f.items), 1, all_news, seen_titles)
       IN  IF f.outcome = "ok"
           THEN /\ all_news' = r.news
                /\ seen_titles' = r.seen
           ELSE UNCHANGED <<all_news, seen_titles>>
    /\ feedIdx' = feedIdx + 1
    /\ UNCHANGED <<feeds, newsDone>>

\* daily_briefing.py:114
ReturnNews ==
    /\ ~newsDone
    /\ feedIdx = NumFeeds
    /\ newsDone' = TRUE
    /\ UNCHANGED <<feeds, feedIdx, all_news, seen_titles>>

InitNews ==
    /\ feeds \in [1..NumFeeds -> FeedAnswers]
    /\ feedIdx = 0
    /\ all_news = <<>>
    /\ seen_titles = {}
    /\ newsDone = FALSE

NextNews ==
    /\ \/ FetchFeed
       \/ ReturnNews
    /\ UNCHANGED slackVars

\* The briefing runs in a process of its own: the webhook state stays put.
InitBriefing == InitSlack /\ InitNews

SpecNews == InitBriefing /\ [][NextNews]_vars

-----------------------------------------------------------------------------
(* Properties of the webhook handler (specification Spec, one thread) *)

Body(s) == req[s].body

\* The request went through the signature gate and reached the router.
Routed(s) ==
    /\ ~Body(s).challenge
    /\ verified[s] = "true"
    /\ Body(s).subtype # "bot_message"
    /\ Body(s).etype = "app_mention"
    /\ Body(s).hasChannel

\* C1: a request that is not answered as a handshake and whose signature
\* verification does not succeed is answered 403 "invalid signature", no
\* chat-post call is made for it and TIMEZONE is as it was on arrival.
C1_RejectUnverified ==
    (pc[1] = "done" /\ ~Body(1).challenge /\ verified[1] # "true")
        => /\ resp[1] = [status |-> 403, body |-> "invalid signature"]
           /\ posts[1] = <<>>
           /\ TIMEZONE = tzBefore[1]

\* C2: a payload that is not of the handshake type (url_verification) gets a
\* response other than 403 from the handler only after verify_slack_request
\* was evaluated and returned true, whatever else the payload carries.
C2_VerifyBeforeTrust ==
    (pc[1] = "done" /\ Body(1).ptype # "url_verification"
        /\ resp[1].body \in {"challenge", "ok"})
        => verified[1] = "true"

\* C3: every request that passes signature verification is answered with the
\* 200 acknowledgment {"ok": true}, whatever the event holds.
C3_AlwaysAcknowledge ==
    (pc[1] = "done" /\ ~Body(1).challenge /\ verified[1] = "true")
        => resp[1] = [status |-> 200, body |-> "ok"]

\* C4: an exception in one intent does not keep the other intents of the
\* message from running: a message with a valid set-timezone command has
\* updated TIMEZONE by the time it is answered, even when an earlier intent
\* of the same message raised.
C4_SiblingIntentsRun ==
    (pc[1] = "done" /\ Routed(1) /\ IsSetTimezone(Text(1)) /\ IsKnownZone(NewTz(Text(1))))
        => TIMEZONE = NewTz(Text(1))

\* C8: a bot-authored event makes no chat-post call and leaves TIMEZONE as it
\* was, even when its text matches intents; once through the signature gate
\* it is answered {"ok": true}.
C8_BotEventsDropped ==
    Body(1).subtype = "bot_message"
        => /\ posts[1] = <<>>
           /\ TIMEZONE = tzBefore[1]
           /\ (pc[1] = "done" /\ ~Body(1).challenge /\ verified[1] = "true")
                 => resp[1] = [status |-> 200, body |-> "ok"]

\* A signed bot-authored mention whose text holds "hi" and a valid
\* set-timezone command has been answered.
C8_Witness ==
    /\ pc[1] = "done"
    /\ Body(1).subtype = "bot_message"
    /\ Body(1).etype = "app_mention"
    /\ verified[1] = "true"
    /\ ~Body(1).challenge
    /\ IsGreeting(Lower(Body(1).text))
    /\ IsKnownZone(NewTz(Lower(Body(1).text)))
    /\ resp[1].body = "ok"

\* C9: verify_slack_request answers true exactly when both headers are
\* present, the secret is configured, the timestamp is an integer within 300
\* seconds of the clock (past or future), and the signature is
\* "v0=" + HMAC-SHA256(secret, "v0:" + timestamp + ":" + body).
C9_VerifyExactly ==
    (pc[1] = "done" /\ ~Body(1).challenge)
        => ((verified[1] = "true")
              <=> /\ req[1].ts.present
                  /\ req[1].sig.present
                  /\ secret # ""
                  /\ ~IntRaises(req[1].ts.val)
                  /\ ~IntLess(IntOf(req[1].ts.val), IntPlus(now, 0 - 300))
                  /\ ~IntLess(IntPlus(now, 300), IntOf(req[1].ts.val))
                  /\ ~req[1].sig.empty
                  /\ req[1].sig.val.prefix = "v0="
                  /\ req[1].sig.val.ascii
                  /\ req[1].sig.val.digest =
                        [key |-> secret, ts |-> req[1].ts.val, body |-> Body(1)])

\* A request stamped exactly 300 seconds ago and signed by Slack was accepted.
C9_Witness ==
    /\ pc[1] = "done"
    /\ verified[1] = "true"
    /\ IntOf(req[1].ts.val) = IntPlus(now, 0 - 300)

\* C6: timezone round trip. CurrentTime renders a query in the zone TIMEZONE
\* names when the query is handled (main.py:143), so the zone of a following
\* current-time query is the TIMEZONE a command leaves behind. Once a
\* set-timezone command has been handled: with a valid zone name, TIMEZONE is
\* that name; with an invalid name, TIMEZONE is as the request found it and a
\* reply is the validation error naming the value that was given.
C6_TimezoneRoundTrip ==
    (pc[1] \in {"ack", "done"} /\ Routed(1) /\ IsSetTimezone(Text(1)))
        => IF IsKnownZone(NewTz(Text(1)))
           THEN TIMEZONE = NewTz(Text(1))
           ELSE /\ TIMEZONE = tzBefore[1]
                /\ \E i \in 1..Len(posts[1]) :
                       /\ posts[1][i].kind = "tz_error"
                       /\ posts[1][i].zone = NewTz(Text(1))

\* The replies the catalog of intents asks for, in the order of the catalog:
\* greeting, time, timezone, then the first matching calendar intent.
MatchesCalendar(text) ==
    IF Contains(text, K_next_event) THEN "next"
    ELSE IF Contains(text, K_today) /\ Contains(text, K_event) THEN "today"
    ELSE IF Contains(text, K_today) /\ Contains(text, K_calendar) THEN "today"
    ELSE IF Contains(text, K_this_week) /\ Contains(text, K_event) THEN "week"
    ELSE IF Contains(text, K_this_week) /\ Contains(text, K_calendar) THEN "week"
    ELSE IF Contains(text, K_calendar) THEN "default"
    ELSE "none"

ExpectedReplies(text) ==
    (IF Contains(text, K_hi) \/ Contains(text, K_hello) THEN <<"greeting">> ELSE <<>>)
    \o (IF Contains(text, K_date) \/ Contains(text, K_time) \/ Contains(text, K_day)
        THEN <<"time">> ELSE <<>>)
    \o (IF Contains(text, K_timezone) THEN <<"timezone">> ELSE <<>>)
    \o (IF MatchesCalendar(text) # "none" THEN <<MatchesCalendar(text)>> ELSE <<>>)

\* The intent a posted message answers.
ReplyOf(kind) ==
    CASE kind = "greeting" -> "greeting"
      [] kind \in {"time", "time_error"} -> "time"
      [] kind \in {"tz_updated", "tz_error"} -> "timezone"
      [] kind \in {"cal_next", "cal_next_none"} -> "next"
      [] kind \in {"cal_today", "cal_today_none"} -> "today"
      [] kind \in {"cal_week", "cal_week_none"} -> "week"
      [] kind \in {"cal_default", "cal_default_none"} -> "default"
      [] OTHER -> "unavailable"

\* C7: a verified app_mention handled with no failing chat-post call gets
\* exactly one reply per triggered intent (greeting, time, timezone, each
\* decided on its own keywords) plus the reply of the first matching calendar
\* intent in the order next, today, week, default, and every reply goes to the
\* channel of the event.
C7_RepliesPerIntent ==
    (pc[1] = "done" /\ Routed(1) /\ ~caught[1])
        => /\ Len(posts[1]) = Len(ExpectedReplies(Text(1)))
           /\ \A i \in 1..Len(posts[1]) :
                 /\ posts[1][i].channel = Body(1).channel
                 /\ \/ ReplyOf(posts[1][i].kind) = ExpectedReplies(Text(1))[i]
                    \/ /\ posts[1][i].kind = "cal_unavailable"
                       /\ ExpectedReplies(Text(1))[i] \in {"next", "today", "week", "default"}

\* A message that triggers the time, the timezone and a calendar intent got
\* its three replies, the last one listing the events of the next 7 days.
C7_Witness ==
    /\ pc[1] = "done"
    /\ Routed(1)
    /\ ~caught[1]
    /\ Len(posts[1]) = 3
    /\ posts[1][1].kind = "time"
    /\ posts[1][2].kind = "tz_error"
    /\ posts[1][3].kind = "cal_default"
    /\ Len(posts[1][3].events) = 2
    /\ posts[1][3].events[1].summary = "standup"

-----------------------------------------------------------------------------
(* Properties under concurrent requests (specification SpecConc) *)

\* C5: in every reachable state, whatever the interleaving of the handler
\* threads, TIMEZONE is a name pytz parses as a zone: the default, or the
\* value extracted from a set-timezone command that was sent.
C5_TimezoneAlwaysValid ==
    /\ IsKnownZone(TIMEZONE)
    /\ \/ TIMEZONE = DefaultTimezone
       \/ \E x \in ConcTexts : IsSetTimezone(Lower(x)) /\ TIMEZONE = NewTz(Lower(x))

\* Two threads are in flight, one has replied to an invalid zone name with the
\* validation error, and TIMEZONE is no longer the default.
C5_Witness ==
    /\ TIMEZONE # DefaultTimezone
    /\ pc[1] = "cal"
    /\ pc[2] = "tzpost"
    /\ posts[1] # <<>>
    /\ posts[1][Len(posts[1])].kind = "tz_error"

-----------------------------------------------------------------------------
(* Properties of the news aggregation (specification SpecNews) *)

\* The items of one feed the loop gets to see: none unless the feed answered,
\* then its first five, up to an item that cannot be read.
RECURSIVE Readable(_)
Readable(items) ==
    IF items = <<>> \/ Head(items).broken THEN <<>>
    ELSE <<Head(items)>> \o Readable(Tail(items))

RECURSIVE Delivered(_)
Delivered(k) ==
    IF k = 0 THEN <<>>
    ELSE Delivered(k - 1)
         \o (IF feeds[k].outcome = "ok"
             THEN Readable([i \in 1..(IF Len(feeds[k].items) < 5 THEN Len(feeds[k].items)
                                       ELSE 5) |-> feeds[k].items[i]])
             ELSE <<>>)

\* The items of a sequence whose title did not occur before them.
FirstOccurrences(flat) ==
    LET keep == {i \in 1..Len(flat) : \A j \in 1..(i - 1) : flat[j].title # flat[i].title}
        RECURSIVE Pick(_)
        Pick(i) ==
            IF i > Len(flat) THEN <<>>
            ELSE (IF i \in keep THEN <<[title |-> flat[i].title, link |-> flat[i].link]>>
                  ELSE <<>>) \o Pick(i + 1)
    IN  Pick(1)

\* C10: whatever the feeds answer and whichever of them fail, the list
\* get_raw_news_headlines returns holds no title twice, holds each title at
\* the place of its first occurrence in feed order among the first five items
\* of each feed, and holds the items of every feed that did not fail.
C10_NewsDeduplicated ==
    newsDone =>
        /\ \A i, j \in 1..Len(all_news) :
              i # j => all_news[i].title # all_news[j].title
        /\ all_news = FirstOccurrences(Delivered(NumFeeds))
        /\ \A k \in 1..NumFeeds :
              (feeds[k].outcome = "ok" /\ \A i \in 1..Len(feeds[k].items) :
                                              ~feeds[k].items[i].broken)
                  => \A i \in 1..Len(feeds[k].items) :
                        i <= 5 => \E n \in 1..Len(all_news) :
                                      all_news[n].title = feeds[k].items[i].title

\* The first feed raised, the second answered a status other than 200, the
\* third held seven items with a repeated title, the fourth repeated titles
\* of the third: the list holds the third feed's first five without the
\* repeat, then what the fourth added.
C10_Witness ==
    /\ newsDone
    /\ feeds[1].outcome = "raise"
    /\ feeds[2].outcome = "status"
    /\ Len(feeds[3].items) = 7
    /\ Len(feeds[4].items) = 4
    /\ Len(all_news) = 7
    /\ all_news[1].link = "a@3"
    /\ all_news[7].link = "g@2"

=============================================================================
